---------------------------- MODULE Spec2Model ----------------------------
(***************************************************************************)
(* The simulation core of the wave-survival shooter: the fixed-order tick  *)
(* loop (gameLoop) of the three engine variants of the repository, the     *)
(* key handler, and the host's game-over handler.                          *)
(*                                                                         *)
(*   "solo"    src/components/GameEngine.tsx        one player, mouse aim  *)
(*   "coop"    src/unnamed/part_002                 players[], respawn at  *)
(*                                                  wave clear             *)
(*   "respawn" src/unnamed/part_003 (lines 405 on)  players[], timed       *)
(*                                                  auto-respawn           *)
(*                                                                         *)
(* Hit points and damage are counted in half points (the difficulty table  *)
(* multiplies by 0.5 and 1.5), so 100 hp is 200 here.  A position is one   *)
(* of a few spots (at player 1, at player 2, a spot in the field, the      *)
(* spawn margin outside the canvas); two entities overlap, and are within  *)
(* a blast radius of each other, when they are at the same spot inside the *)
(* canvas.  The values of Math.random and the button held are inputs of    *)
(* the tick.                                                               *)
(***************************************************************************)
EXTENDS Integers, Sequences, FiniteSets, TLC

VARIABLES
    engine,             \* which GameEngine file the build uses
    gameMode,           \* prop gameMode
    difficulty,         \* settings.difficulty
    levelId,            \* level.id
    gameState,          \* App: GameState (PLAYING while the engine is mounted)
    maxUnlockedLevel,   \* App: useState maxUnlockedLevel
    isPaused,           \* useState isPaused
    animationFrameId,   \* number of requestAnimationFrame calls made
    loopScheduled,      \* a frame callback is pending
    g,                  \* the refs of the engine (see InitRefs)
    obs,                \* observations of the last tick and of the run
    geo                 \* x, y of the players and the obstacle rectangles

vars == <<engine, gameMode, difficulty, levelId, gameState, maxUnlockedLevel, isPaused,
          animationFrameId, loopScheduled, g, obs, geo>>

config == <<engine, gameMode, difficulty, levelId>>

----------------------------------------------------------------------------
(* Bounds of the exploration. *)

\* events (frames and key presses) explored from each snapshot
MaxSteps == 3

\* movement steps, placements and respawns explored from each placing of the
\* players on the canvas
MaxMoves == 3
\* key presses among them
MaxKeys == 2
\* live hostiles in a snapshot
MaxEnemies == 2
\* player projectiles in flight
MaxBullets == 2
\* pickups lying on the field
MaxItems == 1

----------------------------------------------------------------------------
(* Static tables. *)

Engines == {"solo", "coop", "respawn"}

TOTAL_WAVES == 5
TIME_ATTACK_LIMIT == 180

Range(seq) == {seq[k] : k \in 1..Len(seq)}
Min(a, b) == IF a < b THEN a ELSE b
Max(a, b) == IF a > b THEN a ELSE b
\* Math.ceil(n / d) for d > 0
CeilDiv(n, d) == IF n >= 0 THEN (n + d - 1) \div d ELSE -((-n) \div d)

\* x hit points in the model's unit (half points)
Pts(x) == 2 * x

\* DIFFICULTY_MODIFIERS: hp and score in tenths, damage in halves
DIFFICULTY_MODIFIERS ==
    [ EASY   |-> [hp |-> 7,  damage |-> 1, score |-> 8],
      NORMAL |-> [hp |-> 10, damage |-> 2, score |-> 10],
      HARD   |-> [hp |-> 14, damage |-> 3, score |-> 15] ]

diffMod == DIFFICULTY_MODIFIERS[difficulty]

\* WEAPON_STATS of constants.ts (the solo engine)
WEAPON_STATS_SOLO ==
    [ PISTOL        |-> [damage |-> 25,  cooldown |-> 20, clipSize |-> 12,  reloadTime |-> 60,  maxReserve |-> 999, pierce |-> 0, duration |-> 0],
      SHOTGUN       |-> [damage |-> 15,  cooldown |-> 50, clipSize |-> 6,   reloadTime |-> 120, maxReserve |-> 32,  pierce |-> 0, duration |-> 0],
      ASSAULT_RIFLE |-> [damage |-> 18,  cooldown |-> 8,  clipSize |-> 30,  reloadTime |-> 90,  maxReserve |-> 180, pierce |-> 0, duration |-> 0],
      SNIPER        |-> [damage |-> 150, cooldown |-> 70, clipSize |-> 5,   reloadTime |-> 150, maxReserve |-> 20,  pierce |-> 3, duration |-> 0],
      FLAMETHROWER  |-> [damage |-> 3,   cooldown |-> 4,  clipSize |-> 100, reloadTime |-> 180, maxReserve |-> 400, pierce |-> 1, duration |-> 20] ]

\* WEAPON_STATS of the constants file of the players[] engines
WEAPON_STATS_COOP ==
    [ PISTOL        |-> [damage |-> 25,   cooldown |-> 20,  clipSize |-> 12,  reloadTime |-> 60,  maxReserve |-> 999, pierce |-> 0,  duration |-> 0],
      UZI           |-> [damage |-> 12,   cooldown |-> 5,   clipSize |-> 32,  reloadTime |-> 80,  maxReserve |-> 320, pierce |-> 0,  duration |-> 0],
      SHOTGUN       |-> [damage |-> 15,   cooldown |-> 50,  clipSize |-> 6,   reloadTime |-> 120, maxReserve |-> 48,  pierce |-> 0,  duration |-> 0],
      ASSAULT_RIFLE |-> [damage |-> 22,   cooldown |-> 8,   clipSize |-> 40,  reloadTime |-> 90,  maxReserve |-> 240, pierce |-> 0,  duration |-> 0],
      SNIPER        |-> [damage |-> 200,  cooldown |-> 70,  clipSize |-> 5,   reloadTime |-> 150, maxReserve |-> 25,  pierce |-> 5,  duration |-> 0],
      FLAMETHROWER  |-> [damage |-> 4,    cooldown |-> 3,   clipSize |-> 100, reloadTime |-> 180, maxReserve |-> 500, pierce |-> 1,  duration |-> 25],
      RAILGUN       |-> [damage |-> 1000, cooldown |-> 120, clipSize |-> 1,   reloadTime |-> 120, maxReserve |-> 10,  pierce |-> 99, duration |-> 0],
      BARREL        |-> [damage |-> 0,    cooldown |-> 30,  clipSize |-> 1,   reloadTime |-> 0,   maxReserve |-> 5,   pierce |-> 0,  duration |-> 0],
      WALL          |-> [damage |-> 0,    cooldown |-> 30,  clipSize |-> 1,   reloadTime |-> 0,   maxReserve |-> 5,   pierce |-> 0,  duration |-> 0] ]

WEAPON_STATS == IF engine = "solo" THEN WEAPON_STATS_SOLO ELSE WEAPON_STATS_COOP

\* Object.values(WeaponType)
WeaponType == DOMAIN WEAPON_STATS

\* ENEMY_STATS: hp and score per hostile type (the boss differs by file)
ENEMY_STATS ==
    [ NORMAL   |-> [hp |-> 50,  score |-> 100],
      RED      |-> [hp |-> 30,  score |-> 200],
      MUMMY    |-> [hp |-> 200, score |-> 500],
      EXPLODER |-> [hp |-> 40,  score |-> 300],
      SPITTER  |-> [hp |-> 60,  score |-> 400],
      BOSS     |-> IF engine = "solo" THEN [hp |-> 4000, score |-> 5000]
                                      ELSE [hp |-> 5000, score |-> 10000] ]

EnemyType == {"NORMAL", "RED", "MUMMY", "EXPLODER", "SPITTER", "BOSS"}

\* ITEM_STATS in iteration order, chance in thousandths
ItemOrder == <<"MEDKIT", "NUKE", "RAPID_FIRE", "AMMO", "DOUBLE_POINTS", "SHIELD", "FREEZE">>

ITEM_STATS ==
    IF engine = "solo"
    THEN [ MEDKIT        |-> [heal |-> 30, score |-> 0,    chance |-> 30, duration |-> 0],
           NUKE          |-> [heal |-> 0,  score |-> 1000, chance |-> 10, duration |-> 0],
           RAPID_FIRE    |-> [heal |-> 0,  score |-> 0,    chance |-> 30, duration |-> 300],
           AMMO          |-> [heal |-> 0,  score |-> 0,    chance |-> 80, duration |-> 0],
           DOUBLE_POINTS |-> [heal |-> 0,  score |-> 0,    chance |-> 20, duration |-> 600],
           SHIELD        |-> [heal |-> 0,  score |-> 0,    chance |-> 20, duration |-> 300],
           FREEZE        |-> [heal |-> 0,  score |-> 0,    chance |-> 20, duration |-> 300] ]
    ELSE [ MEDKIT        |-> [heal |-> 50, score |-> 0,    chance |-> 50,  duration |-> 0],
           NUKE          |-> [heal |-> 0,  score |-> 1000, chance |-> 5,   duration |-> 0],
           RAPID_FIRE    |-> [heal |-> 0,  score |-> 0,    chance |-> 30,  duration |-> 300],
           AMMO          |-> [heal |-> 0,  score |-> 0,    chance |-> 150, duration |-> 0],
           DOUBLE_POINTS |-> [heal |-> 0,  score |-> 0,    chance |-> 20,  duration |-> 600],
           SHIELD        |-> [heal |-> 0,  score |-> 0,    chance |-> 20,  duration |-> 300],
           FREEZE        |-> [heal |-> 0,  score |-> 0,    chance |-> 20,  duration |-> 300] ]

PLAYER_MAX_HP == 100

\* level.isBossLevel (the solo engine tests level.id === 6 instead)
isBossLevel == IF engine = "solo" THEN levelId = 6 ELSE levelId % 6 = 0

\* is wave w the boss wave of this level
BossWave(w) == isBossLevel /\ w = 5

\* level.baseEnemyCount
baseEnemyCount ==
    IF engine = "solo"
    THEN CASE levelId = 1 -> 12 [] levelId = 2 -> 18 [] levelId = 3 -> 25
           [] levelId = 4 -> 30 [] levelId = 5 -> 35 [] OTHER -> 45
    ELSE 10 + levelId * 5

\* level.spawnRate
spawnRate ==
    IF engine = "solo"
    THEN CASE levelId = 1 -> 120 [] levelId = 2 -> 90 [] levelId = 3 -> 70
           [] levelId = 4 -> 65 [] levelId = 5 -> 60 [] OTHER -> 50
    ELSE Max(20, 120 - levelId * 5)

\* level.enemyTypes
enemyTypes ==
    IF engine = "solo"
    THEN CASE levelId = 1 -> {"NORMAL"}
           [] levelId = 2 -> {"NORMAL", "RED"}
           [] levelId = 3 -> {"NORMAL", "RED", "EXPLODER"}
           [] levelId = 4 -> {"NORMAL", "SPITTER", "EXPLODER"}
           [] levelId = 5 -> {"NORMAL", "RED", "MUMMY", "SPITTER"}
           [] OTHER -> {"NORMAL", "RED", "MUMMY", "EXPLODER", "SPITTER"}
    ELSE {"NORMAL"} \cup (IF levelId > 2 THEN {"RED"} ELSE {})
                    \cup (IF levelId > 5 THEN {"EXPLODER"} ELSE {})
                    \cup (IF levelId > 8 THEN {"SPITTER"} ELSE {})
                    \cup (IF levelId > 12 THEN {"MUMMY"} ELSE {})

isMultiplayer == gameMode \in {"COOP", "DEATHMATCH"}


----------------------------------------------------------------------------
(* Values shared by the three loops.  A tick works on a record s with     *)
(* s.g the refs, s.o the observations and s.ret set once the callback has *)
(* returned early.                                                         *)

\* onGameOver(stats, reason): the call is recorded in order
Signal(s, reason) == [s EXCEPT !.o.gameOverCalls = Append(@, reason),
                               !.o.tickCalls = Append(@, reason)]

\* stats.hp * hpMultiplier of a spawned hostile, in half points
SpawnHp(type, wave) ==
    LET hp10 == IF gameMode = "ENDLESS" THEN diffMod.hp + 2 * wave ELSE diffMod.hp
    IN  (ENEMY_STATS[type].hp * hp10) \div 5

\* the spots entities can be at: "EDGE" is the spawn margin off the canvas
Spots == {"P1", "P2", "FIELD", "EDGE"}

\* the spot of player p
SpotOf(p) == IF p = 1 THEN "P1" ELSE "P2"

\* dist < sum of radii, and dist < blast radius: the same spot on the canvas
Overlap(a, b) == a = b /\ a # "EDGE"

\* a hostile pushed on enemiesRef; boosts counts the times its speed has been
\* multiplied by 1.6, so that speed = spawn speed * 1.6^boosts
NewEnemy(id, type, hp, pos) ==
    [id |-> id, type |-> type, hp |-> hp, maxHp |-> hp, attackTimer |-> 0,
     enraged |-> FALSE, boosts |-> 0, pos |-> pos]

\* ENEMY_STATS[type].score * diffMod.score, doubled under the buff
KillScore(type, double) ==
    LET base == (ENEMY_STATS[type].score * diffMod.score) \div 10
    IN  IF double THEN 2 * base ELSE base

\* cumulative chance of the item types up to position k of the table
RECURSIVE CumulativeChance(_, _)
CumulativeChance(k, mult) ==
    IF k = 0 THEN 0
    ELSE CumulativeChance(k - 1, mult) + ITEM_STATS[ItemOrder[k]].chance * mult

\* the loop of spawnItem without its break: every type whose cumulative
\* chance exceeds rand is pushed
RECURSIVE DropLoop_NoBreak(_, _, _, _, _)
DropLoop_NoBreak(k, cumulativeChance, rand, mult, pos) ==
    IF k > Len(ItemOrder) THEN <<>>
    ELSE LET c == cumulativeChance + ITEM_STATS[ItemOrder[k]].chance * mult
         IN  IF rand < c
             THEN <<[type |-> ItemOrder[k], life |-> 600, pos |-> pos]>>
                  \o DropLoop_NoBreak(k + 1, c, rand, mult, pos)
             ELSE DropLoop_NoBreak(k + 1, c, rand, mult, pos)

\* the loop of spawnItem from the type at position k of the table on, with
\* the chance accumulated so far: what it pushes on itemsRef (rand and the
\* chances in thousandths)
RECURSIVE DropLoop(_, _, _, _, _)
DropLoop(k, cumulativeChance, rand, mult, pos) ==
    IF k > Len(ItemOrder) THEN <<>>
    ELSE LET c == cumulativeChance + ITEM_STATS[ItemOrder[k]].chance * mult
         IN  IF rand < c
             THEN <<[type |-> ItemOrder[k], life |-> 600, pos |-> pos]>>
             ELSE DropLoop(k + 1, c, rand, mult, pos)

\* what spawnItem pushes under the draw rand
DropFor(rand, mult, pos) == DropLoop(1, 0, rand, mult, pos)

\* spawnItem(x, y) under the draw rand: what it pushes goes on itemsRef, and
\* the call is noted with the thing ("KILL", "CRATE") it was made for
spawnItem(s, rand, mult, pos, from) ==
    [s EXCEPT !.g.items = @ \o DropFor(rand, mult, pos),
              !.o.draws = Append(@, [rand |-> rand, mult |-> mult, pos |-> pos,
                                     from |-> from,
                                     made |-> DropFor(rand, mult, pos)])]

\* an obstacle of obstaclesRef; taken lists the damage of the projectile hits
\* it has absorbed
NewObstacle(type, hp, pos) ==
    [type |-> type, hp |-> hp, pos |-> pos, taken |-> <<>>]

\* obstacle k absorbs a projectile of damage dmg
Absorb(s, k, dmg) ==
    [s EXCEPT !.g.obstacles[k].hp = @ - dmg,
              !.g.obstacles[k].taken = Append(@, dmg)]

\* sequence s without position i (Array.splice(i, 1))
Splice(seq, i) == [k \in 1..(Len(seq) - 1) |-> IF k < i THEN seq[k] ELSE seq[k + 1]]

\* position of the hostile with this id, 0 if it is gone
IndexOfId(enemies, id) ==
    IF \E k \in 1..Len(enemies) : enemies[k].id = id
    THEN CHOOSE k \in 1..Len(enemies) : enemies[k].id = id
    ELSE 0

\* comboRef after a kill and stats.maxCombo
ComboKill(s) ==
    LET c == s.g.combo.count + 1
    IN  [s EXCEPT !.g.combo = [count |-> c, timer |-> 120],
                  !.g.maxCombo = IF c > @ THEN c ELSE @]

\* one death event: reward, kill counter, combo (the removal is the caller's)
DeathEvent(s, e) ==
    LET pts == KillScore(e.type, s.g.doublePointsTimer > 0)
        s1  == [s EXCEPT !.g.score = @ + pts,
                         !.g.statsScore = s.g.score + pts,
                         !.g.kills = @ + 1,
                         !.o.deaths = Append(@, [id |-> e.id, pts |-> pts,
                                                 hp |-> e.hp])]
    IN  ComboKill(s1)


----------------------------------------------------------------------------
(* GameEngine.tsx: the single-player loop, first half of the tick. *)

\* getWaveEnemyCount(waveIdx)
SoloWaveEnemyCount(waveIdx) ==
    IF gameMode = "ENDLESS" THEN 10 + waveIdx * 4
    ELSE CeilDiv(baseEnemyCount, 2) + waveIdx * 4

\* a clock that ends the run one tick early; C9 must tell it from SoloClock
SoloClock_Early(s) ==
    LET s1 == [s EXCEPT !.g.timeElapsed = @ + 1]
    IN  IF gameMode = "TIME_ATTACK"
        THEN LET s2 == [s1 EXCEPT !.g.timeAttackTimer = @ - 1]
             IN  IF s2.g.timeAttackTimer <= 1
                 THEN [Signal(s2, "victory") EXCEPT !.ret = TRUE]
                 ELSE s2
        ELSE s1

\* stats.timeElapsed += 1 and the time-attack clock
SoloClock(s) ==
    LET s1 == [s EXCEPT !.g.timeElapsed = @ + 1]
    IN  IF gameMode = "TIME_ATTACK"
        THEN LET s2 == [s1 EXCEPT !.g.timeAttackTimer = @ - 1]
             IN  IF s2.g.timeAttackTimer <= 0
                 THEN [Signal(s2, "victory") EXCEPT !.ret = TRUE]
                 ELSE s2
        ELSE s1

\* the combo timer without the reset of the count
ComboDecay_Sticky(s) ==
    IF s.g.combo.count > 0
    THEN LET t == s.g.combo.timer - 1
         IN  [s EXCEPT !.g.combo = [count |-> @.count,
                                    timer |-> t]]
    ELSE s

\* combo decay
ComboDecay(s) ==
    IF s.g.combo.count > 0
    THEN LET t == s.g.combo.timer - 1
         IN  [s EXCEPT !.g.combo = [count |-> IF t <= 0 THEN 0 ELSE @.count,
                                    timer |-> t]]
    ELSE s

\* a scheduler that leaves CLEARING while hostiles are alive; C3 must tell
\* it from SoloWave
SoloWave_Hasty(s) ==
    CASE s.g.waveState = "INTERMISSION" ->
           LET s1 == [s EXCEPT !.g.intermissionTimer = @ - 1]
           IN  IF s1.g.intermissionTimer <= 0
               THEN [s1 EXCEPT !.g.waveState = "SPAWNING",
                               !.g.enemiesToSpawn =
                                   IF gameMode = "CAMPAIGN" /\ levelId = 6 /\ s.g.wave = 5
                                   THEN 1 ELSE SoloWaveEnemyCount(s.g.wave)]
               ELSE s1
      [] s.g.waveState = "SPAWNING" ->
           IF s.g.enemiesToSpawn <= 0 /\ gameMode # "TIME_ATTACK"
           THEN [s EXCEPT !.g.waveState = "CLEARING"]
           ELSE s
      [] OTHER ->
           IF gameMode = "ENDLESS" \/ s.g.wave < TOTAL_WAVES
           THEN [s EXCEPT !.g.wave = @ + 1,
                          !.g.waveReached = s.g.wave + 1,
                          !.g.waveState = "INTERMISSION",
                          !.g.intermissionTimer = 180,
                          !.o.spawned = <<>>]
           ELSE [Signal(s, "victory") EXCEPT !.ret = TRUE]

\* wave logic of the solo loop with a CLEARING that waits for the boss only,
\* not for its reinforcements
SoloWave_BossOnly(s) ==
    CASE s.g.waveState = "INTERMISSION" ->
           LET s1 == [s EXCEPT !.g.intermissionTimer = @ - 1]
           IN  IF s1.g.intermissionTimer <= 0
               THEN [s1 EXCEPT !.g.waveState = "SPAWNING",
                               !.g.enemiesToSpawn =
                                   IF gameMode = "CAMPAIGN" /\ levelId = 6 /\ s.g.wave = 5
                                   THEN 1 ELSE SoloWaveEnemyCount(s.g.wave)]
               ELSE s1
      [] s.g.waveState = "SPAWNING" ->
           IF s.g.enemiesToSpawn <= 0 /\ gameMode # "TIME_ATTACK"
           THEN [s EXCEPT !.g.waveState = "CLEARING"]
           ELSE s
      [] OTHER ->
           IF \A k \in 1..Len(s.g.enemies) :
                  BossWave(s.g.wave) /\ s.g.enemies[k].type # "BOSS"
           THEN IF gameMode = "ENDLESS" \/ s.g.wave < TOTAL_WAVES
                THEN [s EXCEPT !.g.wave = @ + 1,
                               !.g.waveReached = s.g.wave + 1,
                               !.g.waveState = "INTERMISSION",
                               !.g.intermissionTimer = 180,
                               !.o.spawned = <<>>]
                ELSE [Signal(s, "victory") EXCEPT !.ret = TRUE]
           ELSE s

\* wave logic of the solo loop
SoloWave(s) ==
    CASE s.g.waveState = "INTERMISSION" ->
           LET s1 == [s EXCEPT !.g.intermissionTimer = @ - 1]
           IN  IF s1.g.intermissionTimer <= 0
               THEN [s1 EXCEPT !.g.waveState = "SPAWNING",
                               !.g.enemiesToSpawn =
                                   IF gameMode = "CAMPAIGN" /\ levelId = 6 /\ s.g.wave = 5
                                   THEN 1 ELSE SoloWaveEnemyCount(s.g.wave)]
               ELSE s1
      [] s.g.waveState = "SPAWNING" ->
           IF s.g.enemiesToSpawn <= 0 /\ gameMode # "TIME_ATTACK"
           THEN [s EXCEPT !.g.waveState = "CLEARING"]
           ELSE s
      [] OTHER ->
           IF Len(s.g.enemies) = 0
           THEN IF gameMode = "ENDLESS" \/ s.g.wave < TOTAL_WAVES
                THEN [s EXCEPT !.g.wave = @ + 1,
                               !.g.waveReached = s.g.wave + 1,
                               !.g.waveState = "INTERMISSION",
                               !.g.intermissionTimer = 180,
                               !.o.spawned = <<>>]
                ELSE [Signal(s, "victory") EXCEPT !.ret = TRUE]
           ELSE s

\* the four buff timers count down to 0
PowerupTimers(s) ==
    [s EXCEPT !.g.rapidFireTimer = IF @ > 0 THEN @ - 1 ELSE @,
              !.g.doublePointsTimer = IF @ > 0 THEN @ - 1 ELSE @,
              !.g.shieldTimer = IF @ > 0 THEN @ - 1 ELSE @,
              !.g.freezeTimer = IF @ > 0 THEN @ - 1 ELSE @]

\* a reload request that restarts a running countdown; C12 must tell it
\* from reloadWeapon
reloadWeapon_Restart(s, p) ==
    LET w == s.g.ps[p].currentWeapon
        a == s.g.ps[p].ammo[w]
    IN  IF a.clip < WEAPON_STATS[w].clipSize /\ (a.reserve > 0 \/ w = "PISTOL")
        THEN [s EXCEPT !.g.ps[p].reloadTimer = WEAPON_STATS[w].reloadTime]
        ELSE s

\* reloadWeapon() for player p: starts the reload timer
reloadWeapon(s, p) ==
    LET w == s.g.ps[p].currentWeapon
        a == s.g.ps[p].ammo[w]
    IN  IF a.clip < WEAPON_STATS[w].clipSize /\ (a.reserve > 0 \/ w = "PISTOL")
           /\ s.g.ps[p].reloadTimer = 0
        THEN [s EXCEPT !.g.ps[p].reloadTimer = WEAPON_STATS[w].reloadTime]
        ELSE s

\* a reload that fills the clip whatever the reserve holds; C11 must tell it
\* from FinishReload
FinishReload_Full(s, p) ==
    LET w == s.g.ps[p].currentWeapon
        a == s.g.ps[p].ammo[w]
        needed == WEAPON_STATS[w].clipSize - a.clip
        after == IF w = "PISTOL"
                 THEN [clip |-> WEAPON_STATS[w].clipSize, reserve |-> a.reserve]
                 ELSE [clip |-> a.clip + needed, reserve |-> Max(0, a.reserve - needed)]
    IN  [s EXCEPT !.g.ps[p].ammo[w] = after,
                  !.o.reloaded = @ \cup {[p |-> p, w |-> w, clip |-> a.clip,
                                          reserve |-> a.reserve,
                                          clipAfter |-> after.clip,
                                          reserveAfter |-> after.reserve]}]

\* the transfer made when a reload completes; the completion is recorded
\* with the clip and reserve before and after it
FinishReload(s, p) ==
    LET w == s.g.ps[p].currentWeapon
        a == s.g.ps[p].ammo[w]
        needed == WEAPON_STATS[w].clipSize - a.clip
        amount == Min(needed, a.reserve)
        after == IF w = "PISTOL"
                 THEN [clip |-> WEAPON_STATS[w].clipSize, reserve |-> a.reserve]
                 ELSE [clip |-> a.clip + amount, reserve |-> a.reserve - amount]
    IN  [s EXCEPT !.g.ps[p].ammo[w] = after,
                  !.o.reloaded = @ \cup {[p |-> p, w |-> w, clip |-> a.clip,
                                          reserve |-> a.reserve,
                                          clipAfter |-> after.clip,
                                          reserveAfter |-> after.reserve]}]

\* reload logic of the solo loop
SoloReload(s) ==
    IF s.g.ps[1].reloadTimer > 0
    THEN LET s1 == [s EXCEPT !.g.ps[1].reloadTimer = @ - 1]
         IN  IF s1.g.ps[1].reloadTimer <= 0 THEN FinishReload(s1, 1) ELSE s1
    ELSE s

\* a projectile pushed on bulletsRef
NewBullet(w, owner, pos) ==
    [damage |-> Pts(WEAPON_STATS[w].damage),
     pierce |-> WEAPON_STATS[w].pierce,
     duration |-> IF WEAPON_STATS[w].duration # 0 THEN WEAPON_STATS[w].duration ELSE 1000,
     owner |-> owner, pos |-> pos, hits |-> 0, max |-> 1 + WEAPON_STATS[w].pierce]

\* n copies of b
Copies(b, n) == [k \in 1..n |-> b]

\* shooting of the solo loop without the test of the reload countdown
SoloShoot_Hasty(s, mouseDown) ==
    LET w == s.g.ps[1].currentWeapon
        base == WEAPON_STATS[w].cooldown
        cooldown == IF s.g.rapidFireTimer > 0 THEN CeilDiv(base, 2) ELSE base
        since == s.g.frame - s.g.ps[1].lastShot
    IN  IF mouseDown /\ since > cooldown
        THEN IF s.g.ps[1].ammo[w].clip <= 0
             THEN IF since > 20
                  THEN reloadWeapon([s EXCEPT !.g.ps[1].lastShot = s.g.frame], 1)
                  ELSE s
             ELSE [s EXCEPT !.g.ps[1].lastShot = s.g.frame,
                            !.g.ps[1].ammo[w].clip = @ - 1,
                            !.g.shotsFired = @ + 1,
                            !.g.bullets = @ \o Copies(NewBullet(w, 1, s.g.ps[1].aim),
                                                       IF w = "SHOTGUN" THEN 5 ELSE 1)]
        ELSE s

\* shooting of the solo loop
SoloShoot(s, mouseDown) ==
    LET w == s.g.ps[1].currentWeapon
        base == WEAPON_STATS[w].cooldown
        cooldown == IF s.g.rapidFireTimer > 0 THEN CeilDiv(base, 2) ELSE base
        since == s.g.frame - s.g.ps[1].lastShot
    IN  IF mouseDown /\ since > cooldown
        THEN IF s.g.ps[1].reloadTimer > 0 THEN s
             ELSE IF s.g.ps[1].ammo[w].clip <= 0
             THEN IF since > 20
                  THEN reloadWeapon([s EXCEPT !.g.ps[1].lastShot = s.g.frame], 1)
                  ELSE s
             ELSE [s EXCEPT !.g.ps[1].lastShot = s.g.frame,
                            !.g.ps[1].ammo[w].clip = @ - 1,
                            !.g.shotsFired = @ + 1,
                            !.g.bullets = @ \o Copies(NewBullet(w, 1, s.g.ps[1].aim),
                                                       IF w = "SHOTGUN" THEN 5 ELSE 1)]
        ELSE s

\* the hostile type drawn by the scheduler; rand in hundredths
SoloSpawnType(rand, wave) ==
    IF gameMode = "CAMPAIGN" /\ levelId = 6 /\ wave = 5 THEN "BOSS"
    ELSE IF "MUMMY" \in enemyTypes /\ rand > 85 THEN "MUMMY"
    ELSE IF "EXPLODER" \in enemyTypes /\ rand > 75 THEN "EXPLODER"
    ELSE IF "SPITTER" \in enemyTypes /\ rand > 65 THEN "SPITTER"
    ELSE IF "RED" \in enemyTypes /\ rand > 50 THEN "RED"
    ELSE "NORMAL"

\* the scheduler pushes one hostile and records it for this wave
PushSpawn(s, type) ==
    [s EXCEPT !.g.enemies = Append(@, NewEnemy(s.o.nextId, type,
                                                SpawnHp(type, s.g.wave), "EDGE")),
              !.o.nextId = @ + 1,
              !.o.spawned = Append(@, type)]

\* spawning of the solo loop
SoloSpawn(s, rand) ==
    IF s.g.waveState = "SPAWNING" /\ s.g.enemiesToSpawn > 0
    THEN LET rate == IF gameMode = "TIME_ATTACK" THEN 40
                     ELSE Max(30, spawnRate - s.g.wave * 5)
             s1 == [s EXCEPT !.g.spawnTimer = @ + 1]
         IN  IF s1.g.spawnTimer > rate
             THEN PushSpawn([s1 EXCEPT !.g.spawnTimer = 0,
                                       !.g.enemiesToSpawn =
                                           IF gameMode # "TIME_ATTACK" THEN @ - 1 ELSE @],
                            SoloSpawnType(rand, s.g.wave))
             ELSE s1
    ELSE s


----------------------------------------------------------------------------
(* GameEngine.tsx: second half of the tick.  in is the record of the      *)
(* tick's inputs: the button held and the random draws.                    *)

\* hp -= dmg for every hostile within the blast at pos, except the one at position i
DamageOthers(enemies, i, pos, dmg) ==
    [k \in 1..Len(enemies) |->
        IF k # i /\ Overlap(enemies[k].pos, pos)
        THEN [enemies[k] EXCEPT !.hp = @ - dmg] ELSE enemies[k]]

\* spitter logic of one hostile: it stops in range and shoots every 2 seconds
SoloSpit(s, i, in) ==
    LET e == s.g.enemies[i]
    IN  IF (s.g.freezeTimer > 0 /\ e.type # "BOSS") \/ e.type # "SPITTER"
           \/ e.pos = "EDGE"
        THEN s
        ELSE IF e.attackTimer + 1 > 120
        THEN [s EXCEPT !.g.enemies[i].attackTimer = 0,
                       !.o.fired = @ \cup {e.id},
                       !.g.enemyBullets = Append(@, [damage |-> 15 * diffMod.damage,
                                                     duration |-> 200, pos |-> e.pos])]
        ELSE [s EXCEPT !.g.enemies[i].attackTimer = @ + 1]

\* the step of one hostile toward the player: skipped while frozen (bosses
\* excepted) and by a spitter standing in range, whose speed is 0
SoloMove(s, i) ==
    LET e == s.g.enemies[i]
    IN  IF (s.g.freezeTimer > 0 /\ e.type # "BOSS")
           \/ (e.type = "SPITTER" /\ e.pos # "EDGE")
        THEN s
        ELSE [s EXCEPT !.o.advanced = @ \cup {e.id}]

\* boss minion spawn: three baseline hostiles of 30 hp every 300 frames
SoloMinions(s, i) ==
    IF s.g.enemies[i].type = "BOSS" /\ s.g.frame % 300 = 0
    THEN [s EXCEPT !.g.enemies =
                       @ \o [k \in 1..3 |-> NewEnemy(s.o.nextId + k - 1, "NORMAL", Pts(30),
                                                     s.g.enemies[i].pos)],
                   !.o.nextId = @ + 3]
    ELSE s

\* the player collision with the shield test left out
SoloContact_NoShield(s, i, in) ==
    LET e == s.g.enemies[i]
    IN  IF ~Overlap(e.pos, s.g.players[1].pos) THEN s
        ELSE IF e.type = "EXPLODER" THEN [s EXCEPT !.g.enemies[i].hp = 0]
        ELSE IF s.g.frame % 30 # 0 THEN s
        ELSE LET dmg == IF e.type = "BOSS" THEN 30 * diffMod.damage
                        ELSE 10 * diffMod.damage
                 s1 == [s EXCEPT !.g.players[1].hp = @ - dmg,
                                 !.g.damageTaken = @ + dmg]
             IN  IF s1.g.players[1].hp <= 0 THEN Signal(s1, "defeat") ELSE s1

\* player collision of one hostile
SoloContact(s, i, in) ==
    LET e == s.g.enemies[i]
    IN  IF ~Overlap(e.pos, s.g.players[1].pos) THEN s
        ELSE IF e.type = "EXPLODER" THEN [s EXCEPT !.g.enemies[i].hp = 0]
        ELSE IF s.g.frame % 30 # 0 THEN s
        ELSE IF s.g.shieldTimer > 0 THEN s
        ELSE LET dmg == IF e.type = "BOSS" THEN 30 * diffMod.damage
                        ELSE 10 * diffMod.damage
                 s1 == [s EXCEPT !.g.players[1].hp = @ - dmg,
                                 !.g.damageTaken = @ + dmg]
             IN  IF s1.g.players[1].hp <= 0 THEN Signal(s1, "defeat") ELSE s1

\* death check of one hostile
SoloDeath(s, i, in) ==
    LET e == s.g.enemies[i]
    IN  IF e.hp > 0 THEN s
        ELSE LET s1 == DeathEvent(s, e)
                 s2 == IF e.type = "EXPLODER"
                       THEN LET s3 == IF Overlap(e.pos, s1.g.players[1].pos) /\ s1.g.shieldTimer <= 0
                                      THEN [s1 EXCEPT !.g.players[1].hp = @ - 25 * diffMod.damage,
                                                      !.g.damageTaken = @ + Pts(25)]
                                      ELSE s1
                            IN  [s3 EXCEPT !.g.enemies = DamageOthers(@, i, e.pos, Pts(100))]
                       ELSE s1
             IN  [spawnItem(s2, in.dropRand, 1, e.pos, "KILL")
                    EXCEPT !.g.enemies = Splice(@, i),
                           !.o.removed = Append(@, e.id)]

\* the enemies loop, from position i down to 1
RECURSIVE SoloEnemies(_, _, _)
SoloEnemies(s, i, in) ==
    IF i = 0 THEN s
    ELSE SoloEnemies(SoloDeath(SoloContact(SoloMinions(SoloMove(SoloSpit(s, i, in), i), i), i, in), i, in),
                     i - 1, in)

\* obstacle k, out of hp, leaves obstaclesRef
Break(s, k) ==
    [s EXCEPT !.g.obstacles = Splice(@, k),
              !.o.broken = Append(@, s.g.obstacles[k])]

\* the first obstacle a projectile at pos runs into, 0 for none
HitsObstacle(s, pos) ==
    LET at == {k \in 1..Len(s.g.obstacles) : Overlap(s.g.obstacles[k].pos, pos)}
    IN  IF at = {} THEN 0 ELSE CHOOSE k \in at : \A j \in at : k <= j

\* the hostile projectiles loop, from position i down to 1
RECURSIVE SoloEnemyBullets(_, _, _)
SoloEnemyBullets(s, i, in) ==
    IF i = 0 THEN s
    ELSE LET b  == [s.g.enemyBullets[i] EXCEPT !.duration = @ - 1]
             s1 == [s EXCEPT !.g.enemyBullets[i] = b]
             s2 == IF b.duration <= 0 \/ HitsObstacle(s1, b.pos) # 0
                   THEN [s1 EXCEPT !.g.enemyBullets = Splice(@, i)]
                   ELSE IF Overlap(b.pos, s1.g.players[1].pos)
                   THEN LET s3 == IF s1.g.shieldTimer <= 0
                                  THEN [s1 EXCEPT !.g.players[1].hp = @ - b.damage,
                                                  !.g.damageTaken = @ + b.damage]
                                  ELSE s1
                        IN  [s3 EXCEPT !.g.enemyBullets = Splice(@, i)]
                   ELSE s1
         IN  SoloEnemyBullets(s2, i - 1, in)

\* the crate logic with a crate that survives at 0 hp
HitObstacle_Late(s, k, dmg, rand, mult) ==
    LET ob == s.g.obstacles[k]
    IN  IF ob.type = "CRATE"
        THEN IF ob.hp - dmg < 0
             THEN spawnItem(Break(Absorb(s, k, dmg), k), rand, mult, ob.pos, "CRATE")
             ELSE Absorb(s, k, dmg)
        ELSE s

\* a projectile runs into obstacle k: a crate loses hp and breaks at 0
HitObstacle(s, k, dmg, rand, mult) ==
    LET ob == s.g.obstacles[k]
    IN  IF ob.type = "CRATE"
        THEN IF ob.hp - dmg <= 0
             THEN spawnItem(Break(Absorb(s, k, dmg), k), rand, mult, ob.pos, "CRATE")
             ELSE Absorb(s, k, dmg)
        ELSE s

\* the projectile at position i leaves bulletsRef; its hit count is kept
RemoveBullet(s, i, byHits) ==
    [s EXCEPT !.g.bullets = Splice(@, i),
              !.o.spent = @ \cup {[hits |-> s.g.bullets[i].hits,
                                   max |-> s.g.bullets[i].max,
                                   byHits |-> byHits]}]

\* hostile hits of projectile i, hostiles from position j down to 1; hitCount
\* counts the hits of this tick
RECURSIVE SoloBulletHits(_, _, _, _, _)
SoloBulletHits(s, i, j, hitCount, in) ==
    IF j = 0 THEN s
    ELSE IF Overlap(s.g.enemies[j].pos, s.g.bullets[i].pos)
    THEN LET b  == s.g.bullets[i]
             s1 == [s EXCEPT !.g.enemies[j].hp = @ - b.damage,
                             !.g.shotsHit = @ + 1,
                             !.g.bullets[i].hits = @ + 1]
         IN  IF hitCount + 1 >= 1 + b.pierce
             THEN RemoveBullet(s1, i, TRUE)
             ELSE SoloBulletHits(s1, i, j - 1, hitCount + 1, in)
    ELSE SoloBulletHits(s, i, j - 1, hitCount, in)

\* the player projectiles loop, from position i down to 1
RECURSIVE SoloBullets(_, _, _)
SoloBullets(s, i, in) ==
    IF i = 0 THEN s
    ELSE LET b  == [s.g.bullets[i] EXCEPT !.duration = @ - 1]
             s1 == [s EXCEPT !.g.bullets[i] = b]
             k  == HitsObstacle(s1, b.pos)
             s2 == IF b.pos = "EDGE"
                      \/ (s.g.ps[1].currentWeapon = "FLAMETHROWER" /\ b.duration <= 0)
                   THEN RemoveBullet(s1, i, FALSE)
                   ELSE IF k # 0
                   THEN RemoveBullet(HitObstacle(s1, k, b.damage, in.dropRand, 1), i, FALSE)
                   ELSE SoloBulletHits(s1, i, Len(s1.g.enemies), 0, in)
         IN  SoloBullets(s2, i - 1, in)

\* a pickup effect whose medkit heals past maxHp; C8 must tell it from
\* SoloPickup
SoloPickup_NoCap(s, type) ==
    LET st == ITEM_STATS[type]
        s1 == CASE type = "MEDKIT" ->
                     [s EXCEPT !.g.players[1].hp = @ + Pts(st.heal)]
                [] type = "NUKE" ->
                     [s EXCEPT !.g.enemies = [k \in 1..Len(@) |-> [@[k] EXCEPT !.hp = 0]]]
                [] type = "RAPID_FIRE" -> [s EXCEPT !.g.rapidFireTimer = st.duration]
                [] type = "AMMO" ->
                     [s EXCEPT !.g.ps[1].ammo =
                         [w \in DOMAIN @ |->
                             [@[w] EXCEPT !.reserve = Min(WEAPON_STATS[w].maxReserve,
                                                          @ + WEAPON_STATS[w].clipSize * 2)]]]
                [] type = "DOUBLE_POINTS" -> [s EXCEPT !.g.doublePointsTimer = st.duration]
                [] type = "SHIELD" -> [s EXCEPT !.g.shieldTimer = st.duration]
                [] OTHER -> [s EXCEPT !.g.freezeTimer = st.duration]
    IN  [s1 EXCEPT !.g.score = @ + st.score]

\* the pickup effect of the solo loop
SoloPickup(s, type) ==
    LET st == ITEM_STATS[type]
        s1 == CASE type = "MEDKIT" ->
                     [s EXCEPT !.g.players[1].hp = Min(s.g.players[1].maxHp, @ + Pts(st.heal))]
                [] type = "NUKE" ->
                     [s EXCEPT !.g.enemies = [k \in 1..Len(@) |-> [@[k] EXCEPT !.hp = 0]]]
                [] type = "RAPID_FIRE" -> [s EXCEPT !.g.rapidFireTimer = st.duration]
                [] type = "AMMO" ->
                     [s EXCEPT !.g.ps[1].ammo =
                         [w \in DOMAIN @ |->
                             [@[w] EXCEPT !.reserve = Min(WEAPON_STATS[w].maxReserve,
                                                          @ + WEAPON_STATS[w].clipSize * 2)]]]
                [] type = "DOUBLE_POINTS" -> [s EXCEPT !.g.doublePointsTimer = st.duration]
                [] type = "SHIELD" -> [s EXCEPT !.g.shieldTimer = st.duration]
                [] OTHER -> [s EXCEPT !.g.freezeTimer = st.duration]
    IN  [s1 EXCEPT !.g.score = @ + st.score]

\* the items loop, from position i down to 1
RECURSIVE SoloItems(_, _, _)
SoloItems(s, i, in) ==
    IF i = 0 THEN s
    ELSE LET it == [s.g.items[i] EXCEPT !.life = @ - 1]
             s1 == [s EXCEPT !.g.items[i] = it]
             s2 == IF Overlap(it.pos, s1.g.players[1].pos)
                   THEN [SoloPickup(s1, it.type) EXCEPT !.g.items = Splice(@, i),
                                                        !.o.picked = @ \cup {it.type},
                                                        !.o.takers = Append(@, {1})]
                   ELSE IF it.life <= 0 THEN [s1 EXCEPT !.g.items = Splice(@, i)]
                   ELSE s1
         IN  SoloItems(s2, i - 1, in)

\* the body of gameLoop of GameEngine.tsx when not paused
SoloLoop(s, in) ==
    LET a == SoloClock(s)
        b == IF a.ret THEN a ELSE SoloWave(ComboDecay(a))
        c == SoloSpawn(SoloShoot(SoloReload(PowerupTimers(b)), in.mouseDown), in.spawnRand)
        d == SoloEnemies(c, Len(c.g.enemies), in)
        e == SoloEnemyBullets(d, Len(d.g.enemyBullets), in)
        f == SoloBullets(e, Len(e.g.bullets), in)
        h == SoloItems(f, Len(f.g.items), in)
    IN  IF b.ret THEN b ELSE [h EXCEPT !.g.frame = @ + 1]


----------------------------------------------------------------------------
(* part_002: the players[] loop with respawn at the wave boundary. *)

\* getWaveEnemyCount(waveIdx) of the players[] engines
CoopWaveEnemyCount(waveIdx) ==
    IF gameMode \in {"ENDLESS", "COOP"}
    THEN IF ~isMultiplayer THEN 10 + waveIdx * 6
         ELSE IF engine = "coop" THEN 10 + (waveIdx * 6 * 15) \div 10
         ELSE 10 + CeilDiv(waveIdx * 6 * 11, 10)
    ELSE CeilDiv(baseEnemyCount, 2) + waveIdx * 4

\* COMBO_UNLOCK_THRESHOLDS
COMBO_UNLOCK_THRESHOLDS ==
    [c \in {0, 5, 15, 25, 40, 60, 80, 100, 150} |->
        CASE c = 0 -> "PISTOL" [] c = 5 -> "UZI" [] c = 15 -> "SHOTGUN"
          [] c = 25 -> "BARREL" [] c = 40 -> "ASSAULT_RIFLE" [] c = 60 -> "WALL"
          [] c = 80 -> "SNIPER" [] c = 100 -> "FLAMETHROWER" [] OTHER -> "RAILGUN"]

\* checkComboUnlocks() without the includes() test
checkComboUnlocks_Again(s) ==
    IF s.g.combo.count \in DOMAIN COMBO_UNLOCK_THRESHOLDS
    THEN LET w == COMBO_UNLOCK_THRESHOLDS[s.g.combo.count]
         IN  [s EXCEPT !.g.ps =
                [p \in 1..Len(@) |->
                    [@[p] EXCEPT !.unlockedWeapons = Append(@, w),
                                 !.currentWeapon =
                                     IF w \notin {"BARREL", "WALL"} THEN w ELSE @]]]
    ELSE s

\* checkComboUnlocks()
checkComboUnlocks(s) ==
    IF s.g.combo.count \in DOMAIN COMBO_UNLOCK_THRESHOLDS
    THEN LET w == COMBO_UNLOCK_THRESHOLDS[s.g.combo.count]
         IN  [s EXCEPT !.g.ps =
                [p \in 1..Len(@) |->
                    IF w \in Range(@[p].unlockedWeapons) THEN @[p]
                    ELSE [@[p] EXCEPT !.unlockedWeapons = Append(@, w),
                                      !.currentWeapon =
                                          IF w \notin {"BARREL", "WALL"} THEN w ELSE @]]]
    ELSE s

\* dist < radius: a radius of 1000 covers the 800 x 600 canvas from its centre
InBlast(at, pos, radius) == radius >= 1000 \/ Overlap(at, pos)

\* spawnExplosion(x, y, radius, damage): hostiles in the blast lose damage,
\* players in the blast half of it unless the shield is up
spawnExplosion(s, pos, radius, damage) ==
    [s EXCEPT !.g.enemies = [k \in 1..Len(@) |->
                                IF InBlast(@[k].pos, pos, radius)
                                THEN [@[k] EXCEPT !.hp = @ - Pts(damage)] ELSE @[k]],
              !.g.players = [p \in 1..Len(@) |->
                                IF InBlast(@[p].pos, pos, radius) /\ s.g.shieldTimer <= 0
                                THEN [@[p] EXCEPT !.hp = @ - damage] ELSE @[p]]]

\* the wave logic with a final wave in every mode
CoopWave_Ending(s) ==
    CASE s.g.waveState = "INTERMISSION" ->
           LET s1 == [s EXCEPT !.g.intermissionTimer = @ - 1]
           IN  IF s1.g.intermissionTimer <= 0
               THEN [s1 EXCEPT !.g.waveState = "SPAWNING",
                               !.g.enemiesToSpawn =
                                   IF gameMode = "CAMPAIGN" /\ isBossLevel /\ s.g.wave = 5
                                   THEN 1 ELSE CoopWaveEnemyCount(s.g.wave)]
               ELSE s1
      [] s.g.waveState = "SPAWNING" ->
           IF s.g.enemiesToSpawn <= 0 /\ gameMode # "TIME_ATTACK"
           THEN [s EXCEPT !.g.waveState = "CLEARING"]
           ELSE s
      [] OTHER ->
           IF Len(s.g.enemies) = 0
           THEN IF s.g.wave < TOTAL_WAVES
                THEN [s EXCEPT !.g.wave = @ + 1,
                               !.g.waveReached = s.g.wave + 1,
                               !.g.waveState = "INTERMISSION",
                               !.g.intermissionTimer = 180,
                               !.g.players =
                                   [p \in 1..Len(@) |->
                                       IF @[p].dead
                                       THEN [@[p] EXCEPT !.dead = FALSE, !.hp = s.g.players[p].maxHp,
                                                         !.pos = "FIELD"]
                                       ELSE @[p]],
                               !.o.spawned = <<>>]
                ELSE [Signal(s, "victory") EXCEPT !.ret = TRUE]
           ELSE s

\* wave logic of part_002
CoopWave(s) ==
    CASE s.g.waveState = "INTERMISSION" ->
           LET s1 == [s EXCEPT !.g.intermissionTimer = @ - 1]
           IN  IF s1.g.intermissionTimer <= 0
               THEN [s1 EXCEPT !.g.waveState = "SPAWNING",
                               !.g.enemiesToSpawn =
                                   IF gameMode = "CAMPAIGN" /\ isBossLevel /\ s.g.wave = 5
                                   THEN 1 ELSE CoopWaveEnemyCount(s.g.wave)]
               ELSE s1
      [] s.g.waveState = "SPAWNING" ->
           IF s.g.enemiesToSpawn <= 0 /\ gameMode # "TIME_ATTACK"
           THEN [s EXCEPT !.g.waveState = "CLEARING"]
           ELSE s
      [] OTHER ->
           IF Len(s.g.enemies) = 0
           THEN IF gameMode \in {"ENDLESS", "COOP"} \/ s.g.wave < TOTAL_WAVES
                THEN [s EXCEPT !.g.wave = @ + 1,
                               !.g.waveReached = s.g.wave + 1,
                               !.g.waveState = "INTERMISSION",
                               !.g.intermissionTimer = 180,
                               !.g.players =
                                   [p \in 1..Len(@) |->
                                       IF @[p].dead
                                       THEN [@[p] EXCEPT !.dead = FALSE, !.hp = s.g.players[p].maxHp,
                                                         !.pos = "FIELD"]
                                       ELSE @[p]],
                               !.o.spawned = <<>>]
                ELSE [Signal(s, "victory") EXCEPT !.ret = TRUE]
           ELSE s

\* reload logic of player p
CoopReload(s, p) ==
    IF s.g.ps[p].reloadTimer > 0
    THEN LET s1 == [s EXCEPT !.g.ps[p].reloadTimer = @ - 1]
         IN  IF s1.g.ps[p].reloadTimer <= 0 THEN FinishReload(s1, p) ELSE s1
    ELSE s

\* shooting logic of player p of part_002: placeables come from the reserve
CoopShoot(s, p, shooting) ==
    LET w == s.g.ps[p].currentWeapon
        base == WEAPON_STATS[w].cooldown
        cooldown == IF s.g.rapidFireTimer > 0 THEN CeilDiv(base, 2) ELSE base
        since == s.g.frame - s.g.ps[p].lastShot
        a == s.g.ps[p].ammo[w]
    IN  IF ~(shooting /\ since > cooldown) THEN s
        ELSE IF w \in {"BARREL", "WALL"}
        THEN IF a.reserve > 0 /\ since > 30
             THEN [s EXCEPT !.g.ps[p].lastShot = s.g.frame,
                            !.g.ps[p].ammo[w].reserve = @ - 1,
                            !.g.obstacles =
                                Append(@, NewObstacle(w, IF w = "BARREL" THEN Pts(50)
                                                         ELSE Pts(200),
                                                      s.g.ps[p].aim))]
             ELSE s
        ELSE IF s.g.ps[p].reloadTimer > 0 THEN s
        ELSE IF a.clip <= 0
        THEN IF since > 20
             THEN reloadWeapon([s EXCEPT !.g.ps[p].lastShot = s.g.frame], p)
             ELSE s
        ELSE [s EXCEPT !.g.ps[p].lastShot = s.g.frame,
                       !.g.ps[p].ammo[w].clip = @ - 1,
                       !.g.shotsFired = @ + 1,
                       !.g.bullets = @ \o Copies(NewBullet(w, p, s.g.ps[p].aim),
                                                  IF w = "SHOTGUN" THEN 5 ELSE 1)]

\* the players update of part_002, players p..np in order; dead players are skipped
RECURSIVE CoopPlayers(_, _, _)
CoopPlayers(s, p, in) ==
    IF p > Len(s.g.players) THEN s
    ELSE IF s.g.players[p].dead THEN CoopPlayers(s, p + 1, in)
    ELSE CoopPlayers(CoopShoot(CoopReload(s, p), p, in.mouseDown), p + 1, in)

\* "Check Game Over": every player is dead
CoopDefeatCheck(s) ==
    IF \A p \in 1..Len(s.g.players) : s.g.players[p].dead
    THEN Signal(s, "defeat") ELSE s

\* a projectile of part_002 runs into obstacle k: crates and barrels lose hp,
\* a barrel at 0 explodes, a crate at 0 drops a pickup
CoopHitObstacle(s, k, dmg, rand) ==
    LET ob == s.g.obstacles[k]
    IN  IF ob.type \in {"CRATE", "BARREL"}
        THEN IF ob.hp - dmg <= 0
             THEN LET s0 == Absorb(s, k, dmg)
                      s1 == IF ob.type = "BARREL" THEN spawnExplosion(s0, ob.pos, 100, 150)
                            ELSE spawnItem(s0, rand, 1, ob.pos, "CRATE")
                  IN  Break(s1, k)
             ELSE Absorb(s, k, dmg)
        ELSE s

\* the projectiles loop of part_002, from position i down to 1
RECURSIVE CoopBullets(_, _, _)
CoopBullets(s, i, in) ==
    IF i = 0 THEN s
    ELSE LET b  == [s.g.bullets[i] EXCEPT !.duration = @ - 1]
             s1 == [s EXCEPT !.g.bullets[i] = b]
             k  == HitsObstacle(s1, b.pos)
             s2 == IF b.pos = "EDGE" \/ b.duration <= 0
                   THEN RemoveBullet(s1, i, FALSE)
                   ELSE IF k # 0
                   THEN LET s3 == CoopHitObstacle(s1, k, b.damage, in.dropRand)
                        IN  IF b.pierce > 0 /\ s1.g.obstacles[k].type # "WALL"
                            THEN SoloBulletHits(s3, i, Len(s3.g.enemies), 0, in)
                            ELSE RemoveBullet(s3, i, FALSE)
                   ELSE SoloBulletHits(s1, i, Len(s1.g.enemies), 0, in)
         IN  CoopBullets(s2, i - 1, in)

\* the hostile type drawn by the scheduler of part_002
CoopSpawnType(rand, wave) ==
    IF isBossLevel /\ wave = 5 THEN "BOSS"
    ELSE IF "MUMMY" \in enemyTypes /\ rand > 85 THEN "MUMMY"
    ELSE IF "EXPLODER" \in enemyTypes /\ rand > 75 THEN "EXPLODER"
    ELSE IF "SPITTER" \in enemyTypes /\ rand > 65 THEN "SPITTER"
    ELSE IF "RED" \in enemyTypes /\ rand > 50 THEN "RED"
    ELSE "NORMAL"

\* Math.max(30, level.spawnRate - wave * 5) of part_002
CoopSpawnRate(w) == IF gameMode = "TIME_ATTACK" THEN 40 ELSE Max(30, spawnRate - w * 5)

\* spawning of part_002
CoopSpawn(s, rand) ==
    IF s.g.waveState = "SPAWNING" /\ s.g.enemiesToSpawn > 0
    THEN LET s1 == [s EXCEPT !.g.spawnTimer = @ + 1]
         IN  IF s1.g.spawnTimer > CoopSpawnRate(s.g.wave)
             THEN PushSpawn([s1 EXCEPT !.g.spawnTimer = 0,
                                       !.g.enemiesToSpawn =
                                           IF gameMode # "TIME_ATTACK" THEN @ - 1 ELSE @],
                            CoopSpawnType(rand, s.g.wave))
             ELSE s1
    ELSE s

\* some living player is within spitting range of the spot pos
InRange(s, pos) == pos # "EDGE" /\ \E p \in 1..Len(s.g.players) : ~s.g.players[p].dead

\* movement branch of one hostile of part_002: only the spitter's attack changes state
CoopSpit(s, i) ==
    LET e == s.g.enemies[i]
    IN  IF s.g.freezeTimer <= 0 /\ e.type = "SPITTER" /\ InRange(s, e.pos)
        THEN IF e.attackTimer + 1 > 120
             THEN [s EXCEPT !.g.enemies[i].attackTimer = 0,
                            !.o.fired = @ \cup {e.id},
                            !.g.enemyBullets = Append(@, [damage |-> 15 * diffMod.damage,
                                                          duration |-> 200, pos |-> e.pos])]
             ELSE [s EXCEPT !.g.enemies[i].attackTimer = @ + 1]
        ELSE s

\* the step of one hostile of part_002 toward its target: taken only when no
\* freeze is active and the hostile is not a boss, and not by a spitter in range
CoopMove(s, i) ==
    LET e == s.g.enemies[i]
    IN  IF s.g.freezeTimer <= 0 /\ e.type # "BOSS"
           /\ ~(e.type = "SPITTER" /\ InRange(s, e.pos))
        THEN [s EXCEPT !.o.advanced = @ \cup {e.id}]
        ELSE s

\* boss logic of part_002: enrage once below half hp, minions every 300 frames
CoopBoss(s, i) ==
    LET e == s.g.enemies[i]
    IN  IF e.type # "BOSS" THEN s
        ELSE LET s1 == IF ~e.enraged /\ 2 * e.hp < e.maxHp
                       THEN [s EXCEPT !.g.enemies[i].enraged = TRUE,
                                      !.g.enemies[i].boosts = @ + 1]
                       ELSE s
             IN  IF s.g.frame % 300 = 0
                 THEN [s1 EXCEPT !.g.enemies =
                          @ \o [k \in 1..3 |-> NewEnemy(s.o.nextId + k - 1, "NORMAL",
                                                        Pts(30), e.pos)],
                                 !.o.nextId = @ + 3]
                 ELSE s1

\* contact of hostile i with players p..np of part_002
RECURSIVE CoopContact(_, _, _)
CoopContact(s, i, p) ==
    IF p > Len(s.g.players) THEN s
    ELSE LET pl == s.g.players[p]
             e  == s.g.enemies[i]
             s1 == IF pl.dead \/ ~Overlap(e.pos, pl.pos) THEN s
                   ELSE IF e.type = "EXPLODER" THEN [s EXCEPT !.g.enemies[i].hp = 0]
                   ELSE IF s.g.frame % 30 = 0 /\ s.g.shieldTimer <= 0
                   THEN [s EXCEPT !.g.players[p].hp = @ - 10 * diffMod.damage,
                                  !.g.players[p].dead = (pl.hp - 10 * diffMod.damage <= 0)]
                   ELSE s
         IN  CoopContact(s1, i, p + 1)

\* death of hostile i of part_002
CoopDeath(s, i, in) ==
    LET e == s.g.enemies[i]
    IN  IF e.hp > 0 THEN s
        ELSE LET pts == KillScore(e.type, s.g.doublePointsTimer > 0)
                 s1 == [s EXCEPT !.g.score = @ + pts,
                                 !.g.statsScore = s.g.score + pts,
                                 !.g.kills = @ + 1,
                                 !.g.combo = [count |-> @.count + 1, timer |-> 120],
                                 !.o.deaths = Append(@, [id |-> e.id, pts |-> pts,
                                                         hp |-> e.hp])]
                 s2 == checkComboUnlocks(s1)
                 s3 == IF e.type = "EXPLODER" THEN spawnExplosion(s2, e.pos, 80, 50) ELSE s2
             IN  [spawnItem(s3, in.dropRand, 1, e.pos, "KILL")
                    EXCEPT !.g.enemies = Splice(@, i),
                           !.o.removed = Append(@, e.id)]

\* the enemies loop of part_002, from position i down to 1
RECURSIVE CoopEnemies(_, _, _)
CoopEnemies(s, i, in) ==
    IF i = 0 THEN s
    ELSE CoopEnemies(CoopDeath(CoopContact(CoopBoss(CoopMove(CoopSpit(s, i), i), i), i, 1), i, in),
                     i - 1, in)

\* a hostile projectile at pos reaches players p..np of part_002
RECURSIVE CoopSpitHit(_, _, _, _)
CoopSpitHit(s, pos, dmg, p) ==
    IF p > Len(s.g.players) THEN s
    ELSE LET pl == s.g.players[p]
             s1 == IF ~pl.dead /\ Overlap(pl.pos, pos) /\ s.g.shieldTimer <= 0
                   THEN [s EXCEPT !.g.players[p].hp = @ - dmg,
                                  !.g.players[p].dead = (pl.hp - dmg <= 0)]
                   ELSE s
         IN  CoopSpitHit(s1, pos, dmg, p + 1)

\* the hostile projectiles loop of part_002, from position i down to 1
RECURSIVE CoopEnemyBullets(_, _)
CoopEnemyBullets(s, i) ==
    IF i = 0 THEN s
    ELSE LET b  == [s.g.enemyBullets[i] EXCEPT !.duration = @ - 1]
             s1 == [s EXCEPT !.g.enemyBullets[i] = b]
             blocked == HitsObstacle(s1, b.pos) # 0
             reached == \E p \in 1..Len(s1.g.players) :
                           ~s1.g.players[p].dead /\ Overlap(s1.g.players[p].pos, b.pos)
             s2 == IF blocked THEN s1 ELSE CoopSpitHit(s1, b.pos, b.damage, 1)
             s3 == IF blocked \/ reached \/ b.duration <= 0
                   THEN [s2 EXCEPT !.g.enemyBullets = Splice(@, i)] ELSE s2
         IN  CoopEnemyBullets(s3, i - 1)

\* the effect of a pickup on player p of part_002
CoopPickup(s, p, type) ==
    LET st == ITEM_STATS[type]
    IN  CASE type = "MEDKIT" ->
               [s EXCEPT !.g.players[p].hp = Min(s.g.players[p].maxHp, @ + Pts(st.heal))]
          [] type = "AMMO" ->
               [s EXCEPT !.g.ps[p].ammo =
                   [w \in DOMAIN @ |->
                       [@[w] EXCEPT !.reserve = Min(WEAPON_STATS[w].maxReserve,
                                                    @ + WEAPON_STATS[w].clipSize * 2)]]]
          [] type = "NUKE" ->
               [s EXCEPT !.g.enemies = [k \in 1..Len(@) |-> [@[k] EXCEPT !.hp = 0]]]
          [] type = "RAPID_FIRE" -> [s EXCEPT !.g.rapidFireTimer = st.duration]
          [] type = "DOUBLE_POINTS" -> [s EXCEPT !.g.doublePointsTimer = st.duration]
          [] type = "SHIELD" -> [s EXCEPT !.g.shieldTimer = st.duration]
          [] OTHER -> [s EXCEPT !.g.freezeTimer = st.duration]

\* the players p..np standing on the pickup it take its effect
RECURSIVE CoopPickers(_, _, _)
CoopPickers(s, it, p) ==
    IF p > Len(s.g.players) THEN s
    ELSE LET pl == s.g.players[p]
             s1 == IF ~pl.dead /\ Overlap(pl.pos, it.pos)
                   THEN [CoopPickup(s, p, it.type) EXCEPT !.o.picked = @ \cup {it.type}]
                   ELSE s
         IN  CoopPickers(s1, it, p + 1)

\* the items loop of part_002, from position i down to 1
RECURSIVE CoopItems(_, _)
CoopItems(s, i) ==
    IF i = 0 THEN s
    ELSE LET it == [s.g.items[i] EXCEPT !.life = @ - 1]
             s1 == [s EXCEPT !.g.items[i] = it]
             picked == \E p \in 1..Len(s1.g.players) :
                          ~s1.g.players[p].dead /\ Overlap(s1.g.players[p].pos, it.pos)
             s2 == CoopPickers(s1, it, 1)
             s3 == IF picked \/ it.life <= 0
                   THEN [s2 EXCEPT !.g.items = Splice(@, i)] ELSE s2
             s4 == IF picked
                   THEN [s3 EXCEPT !.o.takers =
                            Append(@, {p \in 1..Len(s1.g.players) :
                                         /\ ~s1.g.players[p].dead
                                         /\ Overlap(s1.g.players[p].pos, it.pos)})]
                   ELSE s3
         IN  CoopItems(s4, i - 1)

\* the body of gameLoop of part_002 when not paused
CoopLoop(s, in) ==
    LET a == SoloClock(s)
        b == IF a.ret THEN a ELSE CoopWave(ComboDecay(a))
        c == PowerupTimers(CoopDefeatCheck(CoopPlayers(b, 1, in)))
        d == CoopSpawn(CoopBullets(c, Len(c.g.bullets), in), in.spawnRand)
        e == CoopEnemies(d, Len(d.g.enemies), in)
        f == CoopEnemyBullets(e, Len(e.g.enemyBullets))
        h == CoopItems(f, Len(f.g.items))
    IN  IF b.ret THEN b ELSE [h EXCEPT !.g.frame = @ + 1]

----------------------------------------------------------------------------
(* part_003: the players[] loop with timed auto-respawn; hostiles and      *)
(* projectiles are filtered, kills are accounted in the projectile filter. *)

\* "Multiplayer Auto-Respawn Logic": a dead player comes back next to the
\* first living one when the respawn timer runs out
AutoRespawn(s) ==
    LET alive == {p \in 1..Len(s.g.players) : ~s.g.players[p].dead}
        buddy == CHOOSE p \in alive : \A q \in alive : p <= q
    IN  IF isMultiplayer /\ alive # {}
        THEN [s EXCEPT !.g.players =
                 [p \in 1..Len(@) |->
                     IF @[p].dead /\ @[p].respawnTimer > 0
                     THEN IF @[p].respawnTimer - 1 <= 0
                          THEN [@[p] EXCEPT !.dead = FALSE, !.hp = s.g.players[p].maxHp,
                                            !.respawnTimer = 0,
                                            !.pos = s.g.players[buddy].pos]
                          ELSE [@[p] EXCEPT !.respawnTimer = @ - 1]
                     ELSE @[p]]]
        ELSE s

\* wave logic of part_003: at the wave boundary the dead come back and the
\* survivors are healed by 20
RespawnWave(s) ==
    CASE s.g.waveState = "INTERMISSION" ->
           LET s1 == [s EXCEPT !.g.intermissionTimer = @ - 1]
           IN  IF s1.g.intermissionTimer <= 0
               THEN [s1 EXCEPT !.g.waveState = "SPAWNING",
                               !.g.enemiesToSpawn =
                                   IF gameMode = "CAMPAIGN" /\ isBossLevel /\ s.g.wave = 5
                                   THEN 1 ELSE CoopWaveEnemyCount(s.g.wave)]
               ELSE s1
      [] s.g.waveState = "SPAWNING" ->
           IF s.g.enemiesToSpawn <= 0 /\ gameMode # "TIME_ATTACK"
           THEN [s EXCEPT !.g.waveState = "CLEARING"]
           ELSE s
      [] OTHER ->
           IF Len(s.g.enemies) = 0
           THEN IF gameMode \in {"ENDLESS", "COOP"} \/ s.g.wave < TOTAL_WAVES
                THEN [s EXCEPT !.g.wave = @ + 1,
                               !.g.waveReached = s.g.wave + 1,
                               !.g.waveState = "INTERMISSION",
                               !.g.intermissionTimer = 180,
                               !.g.players =
                                   [p \in 1..Len(@) |->
                                       IF @[p].dead
                                       THEN [@[p] EXCEPT !.dead = FALSE, !.hp = s.g.players[p].maxHp,
                                                         !.respawnTimer = 0,
                                                         !.pos = "FIELD"]
                                       ELSE [@[p] EXCEPT !.hp = Min(@ + Pts(20),
                                                                    s.g.players[p].maxHp)]],
                               !.o.spawned = <<>>]
                ELSE [Signal(s, "victory") EXCEPT !.ret = TRUE]
           ELSE s

\* the items filter at the head of the update: item.life-- and expiry
RespawnItemsAge(s) ==
    [s EXCEPT !.g.items =
        SelectSeq([k \in 1..Len(@) |-> [@[k] EXCEPT !.life = @ - 1]],
                  LAMBDA it : it.life > 0)]

\* the effect of a pickup on player p of part_003
RespawnPickup(s, p, type) ==
    LET st == ITEM_STATS[type]
    IN  CASE type = "MEDKIT" ->
               [s EXCEPT !.g.players[p].hp = Min(s.g.players[p].maxHp, @ + Pts(st.heal))]
          [] type = "AMMO" ->
               [s EXCEPT !.g.ps[p].ammo =
                   [w \in DOMAIN @ |->
                       IF w \in {"BARREL", "WALL"} THEN @[w]
                       ELSE [@[w] EXCEPT !.reserve = Min(WEAPON_STATS[w].maxReserve,
                                                         @ + WEAPON_STATS[w].clipSize * 2)]]]
          [] type = "NUKE" -> spawnExplosion(s, "FIELD", 1000, 500)
          [] type = "RAPID_FIRE" -> [s EXCEPT !.g.rapidFireTimer = st.duration]
          [] type = "DOUBLE_POINTS" -> [s EXCEPT !.g.doublePointsTimer = st.duration]
          [] type = "SHIELD" -> [s EXCEPT !.g.shieldTimer = st.duration]
          [] OTHER -> [s EXCEPT !.g.freezeTimer = st.duration]

\* the pickups filter of player p, items from position i up
RECURSIVE RespawnPickups(_, _, _)
RespawnPickups(s, p, i) ==
    IF i > Len(s.g.items) THEN s
    ELSE IF Overlap(s.g.items[i].pos, s.g.players[p].pos)
    THEN RespawnPickups([RespawnPickup(s, p, s.g.items[i].type)
                            EXCEPT !.g.items = Splice(@, i),
                                   !.o.picked = @ \cup {s.g.items[i].type},
                                   !.o.takers = Append(@, {p})], p, i)
    ELSE RespawnPickups(s, p, i + 1)

\* a projectile of part_003: wStats.duration || 60
RespawnBullet(w, owner, pos) ==
    [NewBullet(w, owner, pos) EXCEPT
        !.duration = IF WEAPON_STATS[w].duration # 0 THEN WEAPON_STATS[w].duration ELSE 60]

\* reload countdown, shooting and the end of a reload of player p of part_003
RespawnShoot(s, p, shooting) ==
    LET s1 == IF s.g.ps[p].reloadTimer > 0 THEN [s EXCEPT !.g.ps[p].reloadTimer = @ - 1]
              ELSE s
        w == s1.g.ps[p].currentWeapon
        since == s1.g.frame - s1.g.ps[p].lastShot
        ready == IF s1.g.rapidFireTimer > 0 THEN 2 * since > WEAPON_STATS[w].cooldown
                 ELSE since > WEAPON_STATS[w].cooldown
        a == s1.g.ps[p].ammo[w]
        fired == [s1 EXCEPT !.g.ps[p].lastShot = s1.g.frame,
                            !.g.ps[p].ammo[w].clip = @ - 1,
                            !.g.shotsFired = @ + 1]
        s2 == IF ~(shooting /\ s1.g.ps[p].reloadTimer <= 0 /\ ready) THEN s1
              ELSE IF a.clip > 0
              THEN IF w = "SHOTGUN"
                   THEN [fired EXCEPT !.g.bullets =
                            @ \o Copies(RespawnBullet(w, p, s1.g.ps[p].aim), 6)]
                   ELSE IF w \in {"BARREL", "WALL"}
                   THEN [fired EXCEPT !.g.obstacles =
                            Append(@, NewObstacle(w, IF w = "BARREL" THEN Pts(50) ELSE 0,
                                                  s1.g.players[p].pos))]
                   ELSE [fired EXCEPT !.g.bullets =
                            Append(@, RespawnBullet(w, p, s1.g.ps[p].aim))]
              ELSE IF s1.g.ps[p].reloadTimer = 0 /\ a.reserve > 0
              THEN reloadWeapon(s1, p)
              ELSE s1
    IN  IF s2.g.ps[p].reloadTimer = 1 THEN FinishReload(s2, p) ELSE s2

\* the players update of part_003, players p..np in order; dead players are skipped
RECURSIVE RespawnPlayers(_, _, _)
RespawnPlayers(s, p, in) ==
    IF p > Len(s.g.players) THEN s
    ELSE IF s.g.players[p].dead THEN RespawnPlayers(s, p + 1, in)
    ELSE RespawnPlayers(RespawnShoot(RespawnPickups(s, p, 1), p, in.mouseDown), p + 1, in)

\* level.enemyTypes as the array the level generator builds
EnemyTypeOrder == <<"NORMAL", "RED", "EXPLODER", "SPITTER", "MUMMY">>

enemyTypeList == SelectSeq(EnemyTypeOrder, LAMBDA ty : ty \in enemyTypes)

\* spawning of part_003: the timer counts down, the type is drawn uniformly
\* (rand in hundredths), the boss is the last spawn of a campaign boss wave
RespawnSpawn(s, rand) ==
    IF s.g.waveState = "SPAWNING" /\ s.g.enemiesToSpawn > 0
    THEN LET s1 == [s EXCEPT !.g.spawnTimer = @ - 1]
             type == enemyTypeList[(rand * Len(enemyTypeList)) \div 100 + 1]
             isBoss == /\ gameMode = "CAMPAIGN" /\ isBossLevel
                       /\ s.g.wave = 5 /\ s.g.enemiesToSpawn = 1
             finalType == IF isBoss THEN "BOSS" ELSE type
         IN  IF s1.g.spawnTimer <= 0
             THEN [s1 EXCEPT !.g.enemies =
                                Append(@, NewEnemy(s.o.nextId, finalType,
                                                   (ENEMY_STATS[finalType].hp * diffMod.hp) \div 5,
                                                   "EDGE")),
                             !.o.nextId = @ + 1,
                             !.o.spawned = Append(@, finalType),
                             !.g.enemiesToSpawn = @ - 1,
                             !.g.spawnTimer = IF s.g.rapidFireTimer > 0
                                              THEN CeilDiv(spawnRate, 2) ELSE spawnRate]
             ELSE s1
    ELSE s

\* the living player a hostile at pos is in contact with: the nearest one,
\* the first of them in players[] order; 0 for none
ContactOf(s, pos) ==
    LET near == {p \in 1..Len(s.g.players) :
                    ~s.g.players[p].dead /\ Overlap(s.g.players[p].pos, pos)}
    IN  IF near = {} THEN 0 ELSE CHOOSE p \in near : \A q \in near : p <= q

\* the step of one hostile of part_003 toward the nearest living player: a
\* freeze halves the speed, for every type of hostile
RespawnMove(s, i) ==
    IF \E p \in 1..Len(s.g.players) : ~s.g.players[p].dead
    THEN [s EXCEPT !.o.advanced = @ \cup {s.g.enemies[i].id}]
    ELSE s

\* contact damage of hostile i of part_003: hp is clamped at 0, the player
\* is marked dead, and defeat is signalled once every player is dead
RespawnContact(s, i) ==
    LET p == ContactOf(s, s.g.enemies[i].pos)
        dmg == 10 * diffMod.damage
    IN  IF p # 0 /\ s.g.shieldTimer <= 0 /\ s.g.frame % 30 = 0
        THEN LET s1 == [s EXCEPT !.g.players[p].hp = @ - dmg,
                                 !.g.damageTaken = @ + dmg]
             IN  IF s1.g.players[p].hp <= 0
                 THEN LET s2 == [s1 EXCEPT !.g.players[p].dead = TRUE,
                                           !.g.players[p].hp = 0,
                                           !.g.players[p].respawnTimer = 300]
                      IN  IF \A q \in 1..Len(s2.g.players) : s2.g.players[q].dead
                          THEN Signal(s2, "defeat") ELSE s2
                 ELSE s1
        ELSE s

\* the hostiles filter of part_003, positions i..n in order: "return e.hp > 0"
RECURSIVE RespawnEnemies(_, _)
RespawnEnemies(s, i) ==
    IF i > Len(s.g.enemies)
    THEN [s EXCEPT !.g.enemies = SelectSeq(@, LAMBDA e : e.hp > 0),
                   !.o.removed = @ \o [k \in 1..Len(SelectSeq(s.g.enemies,
                                                              LAMBDA e : e.hp <= 0)) |->
                                          SelectSeq(s.g.enemies, LAMBDA e : e.hp <= 0)[k].id]]
    ELSE RespawnEnemies(RespawnContact(RespawnMove(s, i), i), i + 1)

\* a projectile of part_003 meets obstacles k..n: crates and barrels lose hp
\* and go off at 0
RECURSIVE RespawnHitObstacles(_, _, _, _, _)
RespawnHitObstacles(s, k, pos, dmg, rand) ==
    IF k > Len(s.g.obstacles) THEN s
    ELSE LET ob == s.g.obstacles[k]
         IN  IF Overlap(ob.pos, pos) /\ ob.type \in {"CRATE", "BARREL"}
             THEN LET s0 == IF ob.hp # 0 THEN Absorb(s, k, dmg) ELSE s
                  IN  IF s0.g.obstacles[k].hp <= 0
                      THEN LET s1 == spawnExplosion(s0, ob.pos, 40, 20)
                               s2 == IF ob.type = "BARREL"
                                     THEN spawnExplosion(s1, ob.pos, 100, 100) ELSE s1
                               s3 == spawnItem(s2, rand, IF isMultiplayer THEN 2 ELSE 1,
                                               ob.pos, ob.type)
                               s4 == [Break(s3, k) EXCEPT !.g.statsScore = @ + 50]
                           IN  RespawnHitObstacles(s4, k, pos, dmg, rand)
                      ELSE RespawnHitObstacles(s0, k + 1, pos, dmg, rand)
             ELSE RespawnHitObstacles(s, k + 1, pos, dmg, rand)

\* the kill accounting of the projectile filter for hostile j
RespawnKill(s, j, rand) ==
    LET e == s.g.enemies[j]
        pts == CeilDiv(ENEMY_STATS[e.type].score * diffMod.score
                           * (IF s.g.doublePointsTimer > 0 THEN 2 ELSE 1), 10)
        s1 == [s EXCEPT !.g.kills = @ + 1,
                        !.g.statsScore = @ + pts,
                        !.g.score = @ + pts,
                        !.g.combo = [count |-> @.count + 1, timer |-> 120],
                        !.o.deaths = Append(@, [id |-> e.id, pts |-> pts, hp |-> e.hp])]
    IN  spawnItem(checkComboUnlocks(s1), rand, IF isMultiplayer THEN 2 ELSE 1, e.pos,
                  "KILL")

\* hostile hits of projectile i of part_003, hostiles j..n in order; hit is
\* set by the hit that finds no pierce left
RECURSIVE RespawnBulletHits(_, _, _, _, _)
RespawnBulletHits(s, i, j, hit, rand) ==
    IF j > Len(s.g.enemies) THEN [s |-> s, hit |-> hit]
    ELSE IF ~hit /\ Overlap(s.g.enemies[j].pos, s.g.bullets[i].pos)
    THEN LET b  == s.g.bullets[i]
             s1 == [s EXCEPT !.g.enemies[j].hp = @ - b.damage,
                             !.g.bullets[i].pierce = IF b.pierce > 0 THEN @ - 1 ELSE @,
                             !.g.bullets[i].hits = @ + 1,
                             !.g.shotsHit = @ + 1]
             s2 == IF s1.g.enemies[j].hp <= 0 THEN RespawnKill(s1, j, rand) ELSE s1
         IN  RespawnBulletHits(s2, i, j + 1, b.pierce <= 0, rand)
    ELSE RespawnBulletHits(s, i, j + 1, hit, rand)

\* the projectiles filter of part_003, positions i..n in order; keep holds
\* the positions that stay
RECURSIVE RespawnBullets(_, _, _, _)
RespawnBullets(s, i, keep, in) ==
    IF i > Len(s.g.bullets)
    THEN [s EXCEPT !.g.bullets = [k \in 1..Len(keep) |-> s.g.bullets[keep[k]]]]
    ELSE LET b  == [s.g.bullets[i] EXCEPT !.duration = @ - 1]
             s1 == [s EXCEPT !.g.bullets[i] = b]
             hitWall == HitsObstacle(s1, b.pos) # 0
             s2 == RespawnHitObstacles(s1, 1, b.pos, b.damage, in.dropRand)
             gone(x, byHits) ==
                 [x EXCEPT !.o.spent = @ \cup {[hits |-> x.g.bullets[i].hits,
                                                max |-> x.g.bullets[i].max,
                                                byHits |-> byHits]}]
         IN  IF hitWall \/ b.pos = "EDGE" \/ b.duration <= 0
             THEN RespawnBullets(gone(s2, FALSE), i + 1, keep, in)
             ELSE LET r == RespawnBulletHits(s2, i, 1, FALSE, in.dropRand)
                  IN  IF r.hit THEN RespawnBullets(gone(r.s, TRUE), i + 1, keep, in)
                      ELSE RespawnBullets(r.s, i + 1, Append(keep, i), in)

\* the body of gameLoop of part_003 when not paused
RespawnLoop(s, in) ==
    LET a == SoloClock(PowerupTimers(s))
        b == IF a.ret THEN a ELSE RespawnWave(ComboDecay(AutoRespawn(a)))
        c == RespawnPlayers(RespawnItemsAge(b), 1, in)
        d == RespawnEnemies(RespawnSpawn(c, in.spawnRand), 1)
        e == RespawnBullets(d, 1, <<>>, in)
    IN  IF b.ret THEN b ELSE [e EXCEPT !.g.frame = @ + 1]

----------------------------------------------------------------------------
(* The state after construction, and the snapshots of a run from which    *)
(* the exploration starts.  A snapshot is a state a run passes through;    *)
(* the counters of the run (score, kills, shots, damage taken) and the     *)
(* observations count from the snapshot on.                                *)

\* unlockedWeapons of the solo engine: by level id, every weapon in endless
\* and time-attack
SoloUnlocked ==
    LET all == gameMode \in {"ENDLESS", "TIME_ATTACK"}
        opt(w, lvl) == IF levelId >= lvl \/ all THEN <<w>> ELSE <<>>
    IN  <<"PISTOL">> \o opt("SHOTGUN", 2) \o opt("ASSAULT_RIFLE", 3)
                     \o opt("SNIPER", 4) \o opt("FLAMETHROWER", 5)

\* the refs of a freshly mounted engine (useRef initial values and the
\* mount effect), np players
InitRefs(np) ==
    [ frame |-> 0, timeElapsed |-> 0,
      wave |-> 1, waveReached |-> 1,
      waveState |-> IF gameMode = "TIME_ATTACK" THEN "SPAWNING" ELSE "INTERMISSION",
      intermissionTimer |-> 180,
      enemiesToSpawn |-> IF gameMode = "TIME_ATTACK" THEN 999999
                         ELSE IF engine = "solo" THEN SoloWaveEnemyCount(1)
                         ELSE CoopWaveEnemyCount(1),
      spawnTimer |-> 0,
      timeAttackTimer |-> TIME_ATTACK_LIMIT * 60,
      score |-> 0, statsScore |-> 0, kills |-> 0, shotsFired |-> 0, shotsHit |-> 0,
      damageTaken |-> 0, maxCombo |-> 0,
      combo |-> [count |-> 0, timer |-> 0],
      rapidFireTimer |-> 0, doublePointsTimer |-> 0, shieldTimer |-> 0,
      freezeTimer |-> 0,
      players |-> [p \in 1..np |-> [hp |-> Pts(PLAYER_MAX_HP), maxHp |-> Pts(PLAYER_MAX_HP),
                                    dead |-> FALSE, respawnTimer |-> 0,
                                    pos |-> SpotOf(p)]],
      ps |-> [p \in 1..np |->
                [currentWeapon |-> "PISTOL",
                 unlockedWeapons |-> IF engine = "solo" THEN SoloUnlocked
                                     ELSE <<"PISTOL", "BARREL", "WALL">>,
                 reloadTimer |-> 0, lastShot |-> 0, aim |-> "FIELD",
                 ammo |-> [w \in WeaponType |->
                            [clip |-> WEAPON_STATS[w].clipSize,
                             reserve |-> IF engine # "solo" /\ w \in {"BARREL", "WALL"}
                                         THEN 3 ELSE WEAPON_STATS[w].maxReserve]]]],
      enemies |-> <<>>, bullets |-> <<>>, enemyBullets |-> <<>>, items |-> <<>>,
      obstacles |-> <<>> ]

\* the observations at the start of an exploration
InitObs ==
    [ ticks |-> 0, pausedFrames |-> 0, keys |-> 0,
      gameOverCalls |-> <<>>, tickCalls |-> <<>>,
      deaths |-> <<>>, removed |-> <<>>, spent |-> {}, picked |-> {},
      spawned |-> <<>>, nextId |-> MaxEnemies + 1,
      endedTogether |-> FALSE, paused |-> FALSE, pausedReload |-> FALSE,
      reloaded |-> {}, asked |-> "none", dry |-> {},
      draws |-> <<>>, broken |-> <<>>,
      advanced |-> {}, fired |-> {}, pulled |-> {}, takers |-> <<>>, held |-> {} ]


\* the random draws explored: spawn type (hundredths), item drop (thousandths)
SpawnRands == {40, 60, 70, 80, 90}
DropRands == {35, 209, 210, 999}

\* ids of the hostiles of a list
Ids(enemies) == {enemies[k].id : k \in 1..Len(enemies)}

\* a hostile of a snapshot: hp points left out of the hp it was spawned with
SnapEnemy(id, type, hp, wave, pos) ==
    LET e == [NewEnemy(id, type, SpawnHp(type, wave), pos) EXCEPT !.hp = Min(Pts(hp), @)]
        mad == engine = "coop" /\ type = "BOSS" /\ 2 * e.hp < e.maxHp
    IN  [e EXCEPT !.enraged = mad, !.boosts = IF mad THEN 1 ELSE 0]

\* a boss of a snapshot that the next pistol hit takes below half of its hp
SnapBossAtHalf(wave, pos) ==
    [NewEnemy(1, "BOSS", SpawnHp("BOSS", wave), pos)
        EXCEPT !.hp = SpawnHp("BOSS", wave) \div 2 + Pts(10)]

\* the hostile lists of the snapshots of a wave
SnapEnemies(wave, boss) ==
    LET ok(type) == type \in enemyTypes
        one(type, hp, pos) ==
            IF ok(type) THEN {<<SnapEnemy(1, type, hp, wave, pos)>>} ELSE {}
        two(t1, h1, p1, t2, h2, p2) ==
            IF ok(t1) /\ ok(t2)
            THEN {<<SnapEnemy(1, t1, h1, wave, p1), SnapEnemy(2, t2, h2, wave, p2)>>}
            ELSE {}
    IN  IF boss THEN {<<SnapEnemy(1, "BOSS", 25, wave, "FIELD")>>,
                      <<SnapEnemy(1, "BOSS", 5000, wave, "P1")>>,
                      <<SnapBossAtHalf(wave, "FIELD")>>}
        ELSE {<<>>} \cup one("NORMAL", 20, "FIELD") \cup one("NORMAL", 500, "FIELD")
                    \cup one("NORMAL", 25, "P1")
                    \cup one("EXPLODER", 500, "P1") \cup one("SPITTER", 500, "FIELD")
                    \cup two("NORMAL", 20, "P1", "NORMAL", 25, "P1")
                    \cup two("NORMAL", 25, "FIELD", "EXPLODER", 500, "FIELD")

\* the weapons unlocked in a snapshot taken in combat: in the solo engine
\* those of the level, in the players[] engines those of a run whose combo
\* has reached 100 (the thresholds up to the flamethrower, in order)
SnapUnlocked ==
    IF engine = "solo" THEN SoloUnlocked
    ELSE <<"PISTOL", "BARREL", "WALL", "UZI", "SHOTGUN", "ASSAULT_RIFLE", "SNIPER",
           "FLAMETHROWER">>

\* the refs r with the weapons of a combat snapshot unlocked
WithUnlocked(r) ==
    [r EXCEPT !.ps = [p \in 1..Len(@) |-> [@[p] EXCEPT !.unlockedWeapons = SnapUnlocked]]]

\* a projectile in flight in a snapshot
SnapBullet(w, owner, pos) ==
    IF engine = "respawn" THEN RespawnBullet(w, owner, pos) ELSE NewBullet(w, owner, pos)

\* the shots in flight of the snapshots, as weapon and spot
SnapShots ==
    {<<>>, <<<<"PISTOL", "FIELD">>>>, <<<<"PISTOL", "P1">>>>,
     <<<<"FLAMETHROWER", "P1">>>>,
     <<<<"SNIPER", "P1">>, <<"PISTOL", "EDGE">>>>,
     <<<<"PISTOL", "FIELD">>, <<"PISTOL", "FIELD">>>>,
     <<<<"PISTOL", "P1">>, <<"PISTOL", "P1">>>>}

\* the projectile lists of the snapshots: shots of unlocked weapons
SnapBullets ==
    {[k \in 1..Len(sh) |-> SnapBullet(sh[k][1], 1, sh[k][2])] :
        sh \in {x \in SnapShots : \A k \in 1..Len(x) : x[k][1] \in Range(SnapUnlocked)}}

\* a LAB crate (hp 100) of a snapshot that has absorbed hits pistol shots
SnapCrate(hits, pos) ==
    [NewObstacle("CRATE", Pts(100) - hits * Pts(25), pos)
        EXCEPT !.taken = [k \in 1..hits |-> Pts(25)]]

\* the snapshots with a crate on the field: the crate fresh or two or three
\* pistol shots in, up to two more pistol shots about to reach it, a hostile
\* behind it or elsewhere
SnapCrates(r) ==
    {[r EXCEPT !.obstacles = <<SnapCrate(h, "FIELD")>>,
               !.bullets = [k \in 1..n |-> SnapBullet("PISTOL", 1, "FIELD")],
               !.enemies = es, !.frame = 100] :
        h \in {0, 2, 3}, n \in 0..MaxBullets,
        es \in {<<SnapEnemy(1, "NORMAL", 500, 4, "P1")>>,
                <<SnapEnemy(1, "NORMAL", 20, 4, "FIELD")>>}}

\* the snapshots with a streak under way: one kill 50 ticks back, a streak of
\* two with one or two ticks left, a streak that has run out; one or two
\* hostiles that the next pistol hit kills and up to two shots reaching them
SnapStreaks(r) ==
    {[r EXCEPT !.combo = c, !.kills = 2,
               !.maxCombo = IF engine = "solo" THEN 2 ELSE 0,
               !.bullets = [k \in 1..n |-> SnapBullet("PISTOL", 1, "FIELD")],
               !.enemies = es, !.frame = 100] :
        c \in {[count |-> 1, timer |-> 70], [count |-> 2, timer |-> 1],
               [count |-> 2, timer |-> 2], [count |-> 0, timer |-> 0]},
        n \in 0..MaxBullets,
        es \in {<<SnapEnemy(1, "NORMAL", 20, 4, "FIELD")>>,
                <<SnapEnemy(1, "NORMAL", 20, 4, "FIELD"),
                  SnapEnemy(2, "NORMAL", 25, 4, "FIELD")>>}}

\* the snapshots of a two-player run one kill short of an unlock threshold:
\* a streak of 4 (the UZI at 5) with the starting weapons or with the UZI of
\* an earlier streak, of 24 (the BARREL at 25, a starting weapon), of 149 (the
\* RAILGUN at 150); player 2 holds a barrel; one or two hostiles that the
\* next pistol hit kills and one or two shots reaching them
SnapUnlocks(r) ==
    {[r EXCEPT !.combo = [count |-> cu[1], timer |-> 70], !.kills = cu[1],
               !.ps = [p \in 1..Len(@) |->
                          [@[p] EXCEPT !.unlockedWeapons = cu[2],
                                       !.currentWeapon = IF p = 2 THEN "BARREL" ELSE @]],
               !.bullets = [k \in 1..n |-> SnapBullet("PISTOL", 1, "FIELD")],
               !.enemies = es, !.frame = 100] :
        cu \in {<<4, <<"PISTOL", "BARREL", "WALL">>>>,
                <<4, <<"PISTOL", "BARREL", "WALL", "UZI">>>>,
                <<24, <<"PISTOL", "BARREL", "WALL", "UZI", "SHOTGUN">>>>,
                <<149, SnapUnlocked>>},
        n \in 1..MaxBullets,
        es \in {<<SnapEnemy(1, "NORMAL", 20, 4, "FIELD")>>,
                <<SnapEnemy(1, "NORMAL", 20, 4, "FIELD"),
                  SnapEnemy(2, "NORMAL", 25, 4, "FIELD")>>}}

\* the snapshots of a two-player run with both players, hurt, within reach of
\* one pickup (player 2 next to player 1, alive or waiting to be revived),
\* the shotgun reserve of both at 3, and one hostile on the field or none
SnapShares(r) ==
    {[r EXCEPT !.items = <<[type |-> ty, life |-> 300, pos |-> "P1"]>>,
               !.players = [p \in 1..Len(@) |->
                              IF p = 2 /\ down
                              THEN [@[p] EXCEPT !.hp = 0, !.dead = TRUE, !.pos = "P1",
                                                !.respawnTimer = 300]
                              ELSE [@[p] EXCEPT !.hp = Pts(5), !.pos = "P1"]],
               !.ps = [p \in 1..Len(@) |-> [@[p] EXCEPT !.ammo["SHOTGUN"].reserve = 3]],
               !.enemies = es, !.frame = 100] :
        ty \in {"MEDKIT", "AMMO", "NUKE", "SHIELD"}, down \in BOOLEAN,
        es \in {<<>>, <<SnapEnemy(1, "NORMAL", 500, r.wave, "FIELD")>>}}

\* the snapshots with buffs running in a boss wave: a freeze and a shield, each
\* off or 200 ticks from its end, on a frame whose tick resolves contact
\* damage; a boss with one of its minions on the player, a spitter about to
\* fire or an exploder on the player; a hostile projectile reaching the player
\* or none; in the players[] engines also a barrel next to player 1 that the
\* next pistol hit sets off
SnapBuffs(r) ==
    {[r EXCEPT !.freezeTimer = f, !.shieldTimer = sh, !.frame = 60,
               !.enemies = es, !.enemyBullets = eb,
               !.obstacles = ob,
               !.bullets = IF ob = <<>> THEN <<>> ELSE <<SnapBullet("PISTOL", 1, "P1")>>] :
        f \in {0, 200}, sh \in {0, 200},
        es \in {<<SnapEnemy(1, "BOSS", 5000, r.wave, "FIELD"),
                  SnapEnemy(2, "NORMAL", 30, r.wave, "P1")>>,
                <<[SnapEnemy(1, "SPITTER", 500, r.wave, "FIELD") EXCEPT !.attackTimer = 120]>>,
                <<SnapEnemy(1, "EXPLODER", 500, r.wave, "P1")>>},
        eb \in {<<>>, <<[damage |-> 15 * diffMod.damage, duration |-> 200, pos |-> "P1"]>>},
        ob \in IF engine = "solo" THEN {<<>>}
               ELSE {<<>>, <<NewObstacle("BARREL", Pts(10), "P1")>>}}

\* the reload timer of a reload that completes on the next tick: part_003
\* completes it on the tick that takes the timer to 1, the other engines on
\* the tick that takes it to 0
SnapReloadLeft == IF engine = "respawn" THEN 2 ELSE 1

\* the weapon in hand of the snapshots: clip, reserve and reload timer
SnapArms ==
    {a \in {[w |-> "PISTOL", clip |-> 0, reserve |-> 999, reloadTimer |-> 0],
             [w |-> "PISTOL", clip |-> 3, reserve |-> 999, reloadTimer |-> SnapReloadLeft],
             [w |-> "SHOTGUN", clip |-> 2, reserve |-> 3, reloadTimer |-> SnapReloadLeft],
             [w |-> "SHOTGUN", clip |-> 0, reserve |-> 0, reloadTimer |-> 0],
             [w |-> "SNIPER", clip |-> 5, reserve |-> 1, reloadTimer |-> 0],
             [w |-> "FLAMETHROWER", clip |-> 100, reserve |-> 400, reloadTimer |-> 0],
             [w |-> "BARREL", clip |-> 1, reserve |-> 3, reloadTimer |-> 0],
             [w |-> "BARREL", clip |-> 1, reserve |-> 0, reloadTimer |-> 0],
             [w |-> "WALL", clip |-> 1, reserve |-> 1, reloadTimer |-> 0]} :
        a.w \in Range(SnapUnlocked)}

\* the pickup lists of the snapshots
SnapItems ==
    {<<>>} \cup {<<[type |-> ty, life |-> 2, pos |-> pos]>> :
                    ty \in {"MEDKIT", "AMMO", "NUKE", "DOUBLE_POINTS"},
                    pos \in {"P1"}}

\* the refs r with player p holding weapon a.w in the state a
WithArms(r, p, a) ==
    [WithUnlocked(r) EXCEPT
              !.ps[p].currentWeapon = a.w,
              !.ps[p].reloadTimer = a.reloadTimer,
              !.ps[p].ammo["PISTOL"].clip = 5,
              !.ps[p].ammo[a.w] = [clip |-> a.clip, reserve |-> a.reserve]]

\* the scheduler at wave w: quota left, state, timers
WithWave(r, w, state, left, timer, spawnT) ==
    [r EXCEPT !.wave = w, !.waveReached = w, !.waveState = state,
              !.enemiesToSpawn = left, !.intermissionTimer = timer,
              !.spawnTimer = spawnT]

\* Math.max(30, level.spawnRate - wave * 5) of the solo loop
SoloSpawnRate(w) == IF gameMode = "TIME_ATTACK" THEN 40 ELSE Max(30, spawnRate - w * 5)

\* the quota the solo loop sets at the start of wave w
SoloQuota(w) ==
    IF gameMode = "CAMPAIGN" /\ levelId = 6 /\ w = 5 THEN 1 ELSE SoloWaveEnemyCount(w)

\* the quota part_002 sets at the start of wave w
CoopQuota(w) ==
    IF gameMode = "CAMPAIGN" /\ isBossLevel /\ w = 5 THEN 1 ELSE CoopWaveEnemyCount(w)

\* the spawn timer one tick before the scheduler of the engine spawns at wave w
SnapSpawnTimer(w) ==
    IF engine = "respawn" THEN 1
    ELSE IF engine = "solo" THEN SoloSpawnRate(w) ELSE CoopSpawnRate(w)

\* the scheduler states of the snapshots: end of an intermission, last
\* spawn of a wave, first spawn of a wave, a wave being cleared
SnapWaves(r) ==
    LET quota(w) == IF engine = "solo" THEN SoloQuota(w) ELSE CoopQuota(w)
    IN  UNION {{WithWave(r, w, "INTERMISSION", 0, 1, 0),
                WithWave(r, w, "SPAWNING", 1, 0, SnapSpawnTimer(w)),
                WithWave(r, w, "SPAWNING", quota(w), 0, SnapSpawnTimer(w)),
                WithWave(r, w, "CLEARING", 0, 0, 0)} : w \in {4, 5}}

\* hostiles that can be alive in the scheduler state of r
SnapEnemiesFor(r) ==
    IF r.waveState = "INTERMISSION" THEN {<<>>}
    ELSE IF BossWave(r.wave) /\ (engine = "coop" \/ gameMode = "CAMPAIGN")
    THEN IF r.waveState = "CLEARING" THEN SnapEnemies(r.wave, TRUE) ELSE {<<>>}
    ELSE SnapEnemies(r.wave, FALSE)

\* the snapshots with a flame in flight over the open field, one or two ticks
\* from the end of its duration, and the flamethrower or the pistol in hand
SnapFlames(r) ==
    {[WithArms(r, 1, a) EXCEPT
         !.bullets = <<[SnapBullet("FLAMETHROWER", 1, "FIELD") EXCEPT !.duration = d]>>,
         !.enemies = <<SnapEnemy(1, "NORMAL", 500, r.wave, "P1")>>,
         !.frame = 100] :
        d \in {1, 2},
        a \in {[w |-> "FLAMETHROWER", clip |-> 100, reserve |-> 400, reloadTimer |-> 0],
               [w |-> "PISTOL", clip |-> 3, reserve |-> 999, reloadTimer |-> 0]}}

\* the snapshots with the full-clear pickup under player 1 and two hostiles
\* alive: in a boss wave the boss and one of its minions, otherwise a
\* baseline hostile and an exploder; double score off or running, a streak
\* of two under way or none
SnapNukes(r) ==
    {[r EXCEPT !.items = <<[type |-> "NUKE", life |-> 300, pos |-> "P1"]>>,
               !.enemies = IF BossWave(r.wave)
                           THEN <<SnapEnemy(1, "BOSS", 5000, r.wave, "FIELD"),
                                  SnapEnemy(2, "NORMAL", 30, r.wave, "P1")>>
                           ELSE <<SnapEnemy(1, "NORMAL", 500, r.wave, "FIELD"),
                                  SnapEnemy(2, "EXPLODER", 500, r.wave, "FIELD")>>,
               !.doublePointsTimer = dp, !.combo = c, !.kills = c.count,
               !.maxCombo = IF engine = "solo" THEN c.count ELSE 0,
               !.frame = 100] :
        dp \in {0, 200},
        c \in {[count |-> 0, timer |-> 0], [count |-> 2, timer |-> 50]}}

\* snapshots of a solo run, by theme: "combat" in the last wave being
\* cleared, "waves" at the scheduler's transitions, "arms" with a weapon in
\* hand and a pickup on the field, "clock" shortly before the time-attack
\* clock runs out, "mount" right after construction
SoloSnaps(theme) ==
    LET r0 == InitRefs(1)
        rc == WithUnlocked(WithWave(r0, 5, "CLEARING", 0, 0, 0))
        n  == TIME_ATTACK_LIMIT * 60
    IN  CASE theme = "combat" ->
               {[rc EXCEPT !.enemies = es, !.bullets = bs, !.frame = 59,
                           !.players[1].hp = Pts(hp)] :
                   es \in SnapEnemiesFor(rc), bs \in SnapBullets, hp \in {5, 100}}
          [] theme = "waves" ->
               UNION {{[rw EXCEPT !.enemies = es, !.frame = 599] :
                          es \in SnapEnemiesFor(rw) \cap
                                 ({<<>>} \cup SnapEnemies(rw.wave, TRUE)
                                         \cup {<<SnapEnemy(1, "NORMAL", 20, rw.wave, "FIELD")>>})} :
                       rw \in SnapWaves(r0)}
          [] theme = "arms" ->
               {[WithArms(WithWave(r0, 4, "CLEARING", 0, 0, 0), 1, a)
                    EXCEPT !.items = it, !.players[1].hp = Pts(hp), !.frame = 100,
                           !.enemies = <<SnapEnemy(1, "NORMAL", 500, 4, "FIELD")>>] :
                   a \in SnapArms, it \in SnapItems, hp \in {5, 100}}
          [] theme = "clock" ->
               {[r0 EXCEPT !.timeAttackTimer = k, !.timeElapsed = n - k, !.frame = n - k,
                           !.enemies = es, !.spawnTimer = st] :
                   k \in 1..MaxSteps, st \in {0, 40},
                   es \in {<<>>, <<SnapEnemy(1, "NORMAL", 25, 1, "P1")>>}}
          [] theme = "crates" -> SnapCrates(WithWave(r0, 4, "CLEARING", 0, 0, 0))
          [] theme = "streak" -> SnapStreaks(WithWave(r0, 4, "CLEARING", 0, 0, 0))
          [] theme = "buffs" -> SnapBuffs(rc)
          [] theme = "flames" -> SnapFlames(WithWave(r0, 4, "CLEARING", 0, 0, 0))
          [] theme = "nuke" -> SnapNukes(rc)
          [] OTHER -> {r0}

\* the modes, levels and difficulties the solo snapshots of a theme are taken in
SoloStarts(theme) ==
    CASE theme = "combat" -> {<<"CAMPAIGN", 3, d>> : d \in DOMAIN DIFFICULTY_MODIFIERS}
                             \cup {<<"CAMPAIGN", 5, "NORMAL">>}
      [] theme = "waves" -> {<<"CAMPAIGN", 6, "NORMAL">>, <<"CAMPAIGN", 3, "NORMAL">>,
                             <<"ENDLESS", 3, "HARD">>}
      [] theme = "arms" -> {<<"CAMPAIGN", 5, "NORMAL">>}
      [] theme = "clock" -> {<<"TIME_ATTACK", 2, "NORMAL">>}
      [] theme = "crates" -> {<<"CAMPAIGN", 2, "NORMAL">>}
      [] theme = "streak" -> {<<"CAMPAIGN", 3, "NORMAL">>}
      [] theme = "buffs" -> {<<"CAMPAIGN", 6, "NORMAL">>}
      [] theme = "flames" -> {<<"CAMPAIGN", 5, "NORMAL">>}
      [] theme = "nuke" -> {<<"CAMPAIGN", 6, "NORMAL">>, <<"CAMPAIGN", 3, "HARD">>}
      [] OTHER -> {<<"CAMPAIGN", 1, "NORMAL">>, <<"ENDLESS", 3, "EASY">>,
                   <<"TIME_ATTACK", 2, "NORMAL">>}

\* the refs r of a snapshot with the shots in flight counted as fired: every
\* projectile of a snapshot is a shot of its own that has hit nothing yet
WithShots(r) == [r EXCEPT !.shotsFired = Len(r.bullets)]

Themes == {"mount", "combat", "waves", "arms", "clock", "crates", "streak",
           "buffs", "flames", "nuke"}

InitSolo ==
    /\ engine = "solo"
    /\ \E theme \in Themes : \E st \in SoloStarts(theme) :
          /\ gameMode = st[1] /\ levelId = st[2] /\ difficulty = st[3]
          /\ \E r \in SoloSnaps(theme) : g = WithShots(r)

\* players of a run of the players[] engines
NumPlayers == IF isMultiplayer THEN 2 ELSE 1

\* snapshots of a run of the players[] engines, by theme as for the solo
\* loop; "party" has two players with a hostile on each, or a barrel next to
\* player 1 that a shot of player 2 sets off; "revive" a player waiting for
\* the auto-respawn, with a hostile on the teammate or the wave just cleared;
\* "unlock" two players one kill short of an unlock threshold; "share" two
\* players within reach of the same pickup; "arms" also a
\* barrel next to player 1
CoopSnaps(theme) ==
    LET r0 == InitRefs(NumPlayers)
        rc == WithUnlocked(WithWave(r0, 5, "CLEARING", 0, 0, 0))
        n  == TIME_ATTACK_LIMIT * 60
    IN  CASE theme = "combat" ->
               {[rc EXCEPT !.enemies = es, !.bullets = bs, !.frame = 60,
                           !.players[1].hp = Pts(hp)] :
                   es \in SnapEnemiesFor(rc),
                   bs \in {<<>>, <<SnapBullet("PISTOL", 1, "P1")>>,
                           <<SnapBullet("FLAMETHROWER", 1, "P1")>>,
                           <<SnapBullet("PISTOL", 1, "P1"), SnapBullet("PISTOL", 1, "P1")>>},
                   hp \in {5, 100}}
          [] theme = "party" ->
               {[rc EXCEPT !.enemies = <<SnapEnemy(1, "NORMAL", 500, 5, "P1"),
                                         SnapEnemy(2, "NORMAL", h2, 5, "P2")>>,
                           !.bullets = bs, !.frame = 60,
                           !.players[1].hp = Pts(5),
                           !.players[2].hp = Pts(hp)] :
                   h2 \in {25, 500}, hp \in {5, 100},
                   bs \in {<<>>, <<SnapBullet("PISTOL", 2, "P2")>>}}
               \cup
               {[rc EXCEPT !.enemies = <<SnapEnemy(1, "NORMAL", 500, 5, "FIELD")>>,
                           !.obstacles = <<NewObstacle("BARREL", Pts(10), "P1")>>,
                           !.bullets = <<SnapBullet("PISTOL", 2, "P1")>>, !.frame = 60,
                           !.players[1].hp = Pts(5)]}
          [] theme = "revive" ->
               {[rc EXCEPT !.enemies = es,
                           !.frame = 59,
                           !.players[1] = [@ EXCEPT !.hp = 0, !.dead = TRUE,
                                                    !.respawnTimer = rt],
                           !.players[2].hp = Pts(hp)] :
                   rt \in {1, 300}, hp \in {5, 100},
                   es \in {<<SnapEnemy(1, "NORMAL", 500, 5, "P2")>>, <<>>}}
          [] theme = "waves" ->
               UNION {{[rw EXCEPT !.enemies = es, !.frame = 599] :
                          es \in SnapEnemiesFor(rw) \cap
                                 ({<<>>} \cup SnapEnemies(rw.wave, TRUE)
                                         \cup {<<SnapEnemy(1, "NORMAL", 20, rw.wave, "FIELD")>>})} :
                       rw \in SnapWaves(r0)}
          [] theme = "arms" ->
               {[WithArms(WithWave(r0, 4, "CLEARING", 0, 0, 0), 1, a)
                    EXCEPT !.items = it, !.players[1].hp = Pts(hp), !.frame = 100,
                           !.obstacles = ob,
                           !.bullets = IF ob = <<>> THEN <<>>
                                       ELSE <<SnapBullet("PISTOL", 1, "P1")>>,
                           !.enemies = <<SnapEnemy(1, "NORMAL", 500, 4, "FIELD")>>] :
                   a \in SnapArms,
                   it \in SnapItems, hp \in {5, 100},
                   ob \in {<<>>, <<NewObstacle("BARREL", Pts(10), "P1")>>}}
          [] theme = "clock" ->
               {[r0 EXCEPT !.timeAttackTimer = k, !.timeElapsed = n - k, !.frame = n - k,
                           !.enemies = es, !.spawnTimer = st] :
                   k \in 1..MaxSteps, st \in {0, 40},
                   es \in {<<>>, <<SnapEnemy(1, "NORMAL", 25, 1, "P1")>>}}
          [] theme = "crates" -> SnapCrates(WithWave(r0, 4, "CLEARING", 0, 0, 0))
          [] theme = "streak" -> SnapStreaks(WithWave(r0, 4, "CLEARING", 0, 0, 0))
          [] theme = "buffs" -> SnapBuffs(rc)
          [] theme = "flames" -> SnapFlames(WithWave(r0, 4, "CLEARING", 0, 0, 0))
          [] theme = "nuke" -> SnapNukes(rc)
          [] theme = "unlock" -> SnapUnlocks(WithWave(r0, 4, "CLEARING", 0, 0, 0))
          [] theme = "share" -> SnapShares(rc)
          [] OTHER -> {r0}

\* the modes, levels and difficulties the snapshots of the players[] engines
\* are taken in
CoopStarts(theme) ==
    CASE theme = "combat" -> {<<"CAMPAIGN", 7, "NORMAL">>, <<"CAMPAIGN", 7, "HARD">>}
      [] theme \in {"party", "revive", "unlock", "share"} -> {<<"COOP", 1, "NORMAL">>}
      [] theme = "waves" -> {<<"CAMPAIGN", 12, "NORMAL">>, <<"CAMPAIGN", 7, "NORMAL">>,
                             <<"ENDLESS", 12, "NORMAL">>}
      [] theme = "arms" -> {<<"CAMPAIGN", 7, "NORMAL">>}
      [] theme = "clock" -> {<<"TIME_ATTACK", 2, "NORMAL">>}
      [] theme = "crates" -> {<<"CAMPAIGN", 4, "NORMAL">>}
      [] theme = "streak" -> {<<"CAMPAIGN", 7, "NORMAL">>}
      [] theme = "buffs" -> {<<"CAMPAIGN", 12, "NORMAL">>}
      [] theme = "flames" -> {<<"CAMPAIGN", 7, "NORMAL">>}
      [] theme = "nuke" -> {<<"CAMPAIGN", 12, "NORMAL">>, <<"CAMPAIGN", 7, "HARD">>}
      [] OTHER -> {<<"CAMPAIGN", 1, "NORMAL">>, <<"COOP", 1, "EASY">>}

InitCoop ==
    /\ engine = "coop"
    /\ \E theme \in Themes \cup {"party", "unlock", "share"} : \E st \in CoopStarts(theme) :
          /\ gameMode = st[1] /\ levelId = st[2] /\ difficulty = st[3]
          /\ \E r \in CoopSnaps(theme) : g = WithShots(r)

InitRespawn ==
    /\ engine = "respawn"
    /\ \E theme \in Themes \cup {"party", "revive", "unlock", "share"} : \E st \in CoopStarts(theme) :
          /\ gameMode = st[1] /\ levelId = st[2] /\ difficulty = st[3]
          /\ \E r \in CoopSnaps(theme) : g = WithShots(r)

----------------------------------------------------------------------------
(* The inputs of one tick and the frame callback. *)

\* the inputs of a tick in the refs r: the button held, the spawn draw when
\* the scheduler is due, the drop draw when something can die or break
Inputs(r, due) ==
    [mouseDown : BOOLEAN,
     spawnRand : IF due THEN SpawnRands ELSE {0},
     dropRand : IF r.enemies # <<>> \/ r.obstacles # <<>> THEN DropRands ELSE {999}]

\* the lists stay within the explored sizes; on a boss wave there is room
\* for the three reinforcements the boss calls
Bounded(r) ==
    /\ Len(r.enemies) <= MaxEnemies + (IF BossWave(r.wave) THEN 3 ELSE 0)
    /\ Len(r.bullets) <= MaxBullets
    /\ Len(r.items) <= MaxItems
    /\ Len(r.enemyBullets) <= MaxBullets

\* LEVELS.length
LevelCount == IF engine = "solo" THEN 6 ELSE 18

\* App.handleGameOver without the test against the pointer
setMaxUnlockedLevel_Always(calls) ==
    IF "victory" \in Range(calls) /\ gameMode = "CAMPAIGN"
    THEN levelId + 1
    ELSE maxUnlockedLevel

\* App.handleGameOver: maxUnlockedLevel after the calls of a tick, which all
\* run in the closure of one render: a campaign victory sets it to the id of
\* the next level when that is beyond it
setMaxUnlockedLevel(calls) ==
    IF "victory" \in Range(calls) /\ gameMode = "CAMPAIGN"
       /\ levelId + 1 > maxUnlockedLevel
    THEN levelId + 1
    ELSE maxUnlockedLevel

\* maxUnlockedLevel when the run was started: a campaign level is offered by
\* the menu when its id is not beyond the pointer, so the level is the
\* furthest one unlocked or (for a run about to be won) one played again
\* with two more levels unlocked; the other modes are open from the start
SnapProgress ==
    IF gameMode # "CAMPAIGN" THEN {1}
    ELSE IF g.wave = TOTAL_WAVES /\ g.waveState = "CLEARING" /\ g.enemies = <<>>
    THEN {levelId, Min(levelId + 2, LevelCount + 1)}
    ELSE {levelId}

\* App.handleGameOver: the screen the host shows after the calls of a tick
\* (every call sets the screen, the last one stays): the victory screen for
\* a victory on the last campaign level, the game-over screen otherwise
handleGameOver(state, calls) ==
    IF calls = <<>> THEN state
    ELSE IF calls[Len(calls)] = "victory" /\ gameMode = "CAMPAIGN" /\ levelId = LevelCount
    THEN "VICTORY" ELSE "GAME_OVER"

\* every player is out of hp
AllDown(r) == \A p \in 1..Len(r.players) : r.players[p].hp <= 0

\* the final wave of a run that ends by clearing waves
FinalWave(r) == gameMode = "CAMPAIGN" /\ r.wave = TOTAL_WAVES

\* the players who pull the trigger in the refs r on an empty clip with no
\* reserve and no reload under way
DryPull(r, in) ==
    IF in.mouseDown
    THEN {p \in 1..Len(r.ps) :
            /\ ~r.players[p].dead /\ r.ps[p].reloadTimer = 0
            /\ r.ps[p].ammo[r.ps[p].currentWeapon] = [clip |-> 0, reserve |-> 0]}
    ELSE {}

\* the living players who pull the trigger in the refs r with a barrel or
\* wall in hand and the placement cooldown of 30 ticks elapsed
PlacePull(r, in) ==
    IF in.mouseDown /\ engine # "solo"
    THEN {p \in 1..Len(r.ps) :
            /\ ~r.players[p].dead /\ r.ps[p].currentWeapon \in {"BARREL", "WALL"}
            /\ r.frame - r.ps[p].lastShot > 30}
    ELSE {}

\* the players who pull the trigger in the refs r while their reload
\* countdown has more than the tick being taken left
ReloadPull(r, in) ==
    IF in.mouseDown THEN {p \in 1..Len(r.ps) : r.ps[p].reloadTimer > 1} ELSE {}

\* the observations after a tick that took the refs from r to s.g
Observe(r, s) ==
    [s.o EXCEPT !.ticks = @ + 1,
                !.paused = FALSE,
                !.endedTogether =
                    @ \/ (/\ FinalWave(r) /\ r.waveState = "CLEARING"
                          /\ r.enemies # <<>> /\ s.g.enemies = <<>>
                          /\ ~AllDown(r) /\ AllDown(s.g))]

\* the observations a tick starts from
StartObs == [obs EXCEPT !.tickCalls = <<>>, !.spent = {}, !.picked = {},
                        !.reloaded = {}, !.asked = "none", !.dry = {},
                        !.draws = <<>>, !.broken = <<>>,
                        !.advanced = {}, !.fired = {}, !.pulled = {},
                        !.takers = <<>>, !.held = {}]

\* the record a loop body starts from
Start == [g |-> g, o |-> StartObs, ret |-> FALSE]

\* the record a loop body starts from under the inputs in
StartWith(in) ==
    [Start EXCEPT !.o.dry = DryPull(g, in), !.o.pulled = PlacePull(g, in),
                  !.o.held = ReloadPull(g, in)]

\* one unpaused frame callback whose loop body ended in the record s
Frame(s) ==
    /\ Bounded(s.g)
    /\ g' = s.g
    /\ obs' = Observe(g, s)
    /\ gameState' = handleGameOver(gameState, s.o.tickCalls)
    /\ maxUnlockedLevel' = setMaxUnlockedLevel(s.o.tickCalls)
    /\ animationFrameId' = IF s.ret THEN animationFrameId ELSE animationFrameId + 1
    /\ loopScheduled' = (~s.ret /\ s.o.tickCalls = <<>>)
    /\ UNCHANGED <<config, isPaused, geo>>

\* events explored so far
Steps == obs.ticks + obs.pausedFrames + obs.keys

\* a frame callback can run
Running == gameState = "PLAYING" /\ loopScheduled

\* gameLoop of GameEngine.tsx, not paused
TickSolo ==
    /\ engine = "solo" /\ Running /\ ~isPaused
    /\ Steps < MaxSteps
    /\ \E in \in Inputs(g, g.spawnTimer + 1 > SoloSpawnRate(g.wave)) : Frame(SoloLoop(StartWith(in), in))

\* gameLoop of part_002, not paused
TickCoop ==
    /\ engine = "coop" /\ Running /\ ~isPaused
    /\ Steps < MaxSteps
    /\ \E in \in Inputs(g, g.spawnTimer + 1 > CoopSpawnRate(g.wave)) : Frame(CoopLoop(StartWith(in), in))

\* gameLoop of part_003, not paused
TickRespawn ==
    /\ engine = "respawn" /\ Running /\ ~isPaused
    /\ Steps < MaxSteps
    /\ \E in \in Inputs(g, g.spawnTimer - 1 <= 0) : Frame(RespawnLoop(StartWith(in), in))

\* a paused loop that still counts frames; C6 must tell it from PausedLoop
PausedLoop_Counts(r) == [r EXCEPT !.frame = @ + 1]

\* what the loop does to the refs while isPaused: nothing
PausedLoop(r) == r

\* gameLoop while isPaused: it only re-schedules itself
TickPaused ==
    /\ Running /\ isPaused
    /\ Steps < MaxSteps
    /\ g' = PausedLoop(g)
    /\ animationFrameId' = animationFrameId + 1
    /\ obs' = [obs EXCEPT !.pausedFrames = @ + 1, !.paused = TRUE]
    /\ UNCHANGED <<config, gameState, maxUnlockedLevel, isPaused, loopScheduled, geo>>


----------------------------------------------------------------------------
(* handleKeyDown. *)

\* the keys pressed in the exploration; the handler binds "3" and "4" and
\* the previous-weapon keys in the same way as "1", "2", "5" and the
\* next-weapon keys
Keys == {"Escape", "1", "2", "5", "reload", "nextWeapon", "p2reload", "p2nextWeapon"}

\* position of x in seq (indexOf, from 1; 0 when absent)
IndexOf(seq, x) ==
    IF x \in Range(seq) THEN CHOOSE k \in 1..Len(seq) : seq[k] = x /\ \A j \in 1..(k - 1) : seq[j] # x
    ELSE 0

\* switchWeapon(playerIdx, dir) of the players[] engines
switchWeapon(s, p, dir) ==
    LET un == s.g.ps[p].unlockedWeapons
        cur == IndexOf(un, s.g.ps[p].currentWeapon)
        nxt == IF dir = "next" THEN cur + 1 ELSE cur - 1
        idx == IF nxt > Len(un) THEN 1 ELSE IF nxt < 1 THEN Len(un) ELSE nxt
    IN  [s EXCEPT !.g.ps[p].currentWeapon = un[idx], !.g.ps[p].reloadTimer = 0]

\* the number keys and the weapons the solo engine binds to them
NumberKeys == <<"1", "2", "3", "4", "5">>
SoloKeyWeapon == <<"PISTOL", "SHOTGUN", "ASSAULT_RIFLE", "SNIPER", "FLAMETHROWER">>

\* a key handler that switches to the weapon of a number key without asking
\* whether it is unlocked; C14 must tell it from KeyEffect
KeyEffect_Unchecked(s, key) ==
    LET n == IndexOf(NumberKeys, key)
    IN  IF n > 0
        THEN [s EXCEPT !.g.ps[1].currentWeapon =
                           IF engine = "solo" THEN SoloKeyWeapon[n]
                           ELSE IF n <= Len(s.g.ps[1].unlockedWeapons)
                           THEN s.g.ps[1].unlockedWeapons[n] ELSE "RAILGUN",
                       !.g.ps[1].reloadTimer = 0]
        ELSE IF key = "reload" THEN reloadWeapon(s, 1) ELSE s

\* the body of handleKeyDown behind "if (!isPaused)"
KeyEffect(s, key) ==
    LET n == IndexOf(NumberKeys, key)
        two == isMultiplayer /\ Len(s.g.ps) > 1
    IN  IF engine = "solo"
        THEN IF n > 0
             THEN IF SoloKeyWeapon[n] \in Range(s.g.ps[1].unlockedWeapons)
                  THEN [s EXCEPT !.g.ps[1].currentWeapon = SoloKeyWeapon[n],
                                 !.g.ps[1].reloadTimer = 0]
                  ELSE s
             ELSE IF key = "reload" THEN reloadWeapon(s, 1) ELSE s
        ELSE CASE n > 0 ->
                    IF n <= Len(s.g.ps[1].unlockedWeapons)
                    THEN [s EXCEPT !.g.ps[1].currentWeapon = s.g.ps[1].unlockedWeapons[n]]
                    ELSE s
               [] key = "reload" -> reloadWeapon(s, 1)
               [] key = "prevWeapon" -> switchWeapon(s, 1, "prev")
               [] key = "nextWeapon" -> switchWeapon(s, 1, "next")
               [] key = "p2reload" /\ two -> reloadWeapon(s, 2)
               [] key = "p2prevWeapon" /\ two -> switchWeapon(s, 2, "prev")
               [] key = "p2nextWeapon" /\ two -> switchWeapon(s, 2, "next")
               [] OTHER -> s

\* what a key press asks for, where the handler has to turn the request
\* down: a reload of a player whose countdown is running ("reload1",
\* "reload2"), a switch to a weapon that player 1 has not unlocked ("locked")
Asked(key) ==
    LET n == IndexOf(NumberKeys, key)
        un == g.ps[1].unlockedWeapons
    IN  CASE key = "reload" /\ g.ps[1].reloadTimer > 0 -> "reload1"
          [] key = "p2reload" /\ isMultiplayer /\ Len(g.ps) > 1
                /\ g.ps[2].reloadTimer > 0 -> "reload2"
          [] n > 0 /\ engine = "solo" /\ SoloKeyWeapon[n] \notin Range(un) -> "locked"
          [] n > 0 /\ engine # "solo" /\ n > Len(un) -> "locked"
          [] OTHER -> "none"

\* the guard of the key bindings: "if (!isPaused)"
KeysLive == ~isPaused

\* handleKeyDown(e): Escape toggles the pause flag, which re-runs the effect
\* (the pending frame is cancelled and a new one requested); the other keys
\* act only while not paused
HandleKeyDown ==
    /\ Running
    /\ Steps < MaxSteps /\ obs.keys < MaxKeys
    /\ \E key \in Keys :
         LET s == IF KeysLive /\ key # "Escape"
                  THEN KeyEffect([g |-> g, o |-> obs, ret |-> FALSE], key)
                  ELSE [g |-> g, o |-> obs, ret |-> FALSE]
         IN  /\ g' = s.g
             /\ isPaused' = IF key = "Escape" THEN ~isPaused ELSE isPaused
             /\ animationFrameId' = IF key = "Escape" THEN animationFrameId + 1
                                    ELSE animationFrameId
             /\ obs' = [obs EXCEPT !.keys = @ + 1, !.paused = isPaused,
                                    !.pausedReload = @ \/ (isPaused /\ key = "reload"),
                                    !.reloaded = {}, !.asked = Asked(key), !.dry = {},
                                    !.draws = <<>>, !.broken = <<>>,
                                    !.advanced = {}, !.fired = {}, !.pulled = {},
                        !.takers = <<>>, !.held = {}]
    /\ UNCHANGED <<config, gameState, maxUnlockedLevel, loopScheduled, geo>>

----------------------------------------------------------------------------
(* The canvas: player movement, obstacle placement and the respawn at the
   centre, in hundredths of a pixel. *)

CANVAS_WIDTH == 80000
CANVAS_HEIGHT == 60000
PLAYER_RADIUS == 1200
PLAYER_SPEED == 350

\* the x and the y part of a diagonal step: PLAYER_SPEED / sqrt(2), 247.49
DiagonalStep == 247

\* reach of a placement, Math.cos(angle) * 40, along an axis and on a diagonal
PlaceReach == 4000
PlaceReachDiagonal == 2828

\* checkRectCollision(x, y, radius, rect)
checkRectCollision(x, y, radius, rect) ==
    LET closestX == Max(rect.x, Min(x, rect.x + rect.width))
        closestY == Max(rect.y, Min(y, rect.y + rect.height))
        dx == x - closestX
        dy == y - closestY
    IN  dx * dx + dy * dy < radius * radius

\* the circle of a player at x, y meets one of the obstacles
Collides(x, y, obstacles) ==
    \E k \in 1..Len(obstacles) : checkRectCollision(x, y, PLAYER_RADIUS, obstacles[k])

\* generateObstacles('LAB'): the four crates of levels 2 and 4
LabObstacles ==
    << [x |-> 20000, y |-> 20000, width |-> 5000, height |-> 5000],
       [x |-> 55000, y |-> 20000, width |-> 5000, height |-> 5000],
       [x |-> 20000, y |-> 35000, width |-> 5000, height |-> 5000],
       [x |-> 55000, y |-> 35000, width |-> 5000, height |-> 5000] >>

\* the canvas of the gameplay specification, which keeps spots instead
NoGeo == [players |-> <<>>, obstacles |-> <<>>, steps |-> 0, last |-> "none"]

\* the canvases explored. Solo, level 2: the player up and left of the first
\* crate, 24 or 25 steps right and 31 or 32 steps up of the start (100, 300).
\* Co-op, level 1 (no obstacles): player 1 74 or 75 steps right of the start,
\* player 2 at the start, alive or dead.
SnapGeo ==
    IF engine = "solo"
    THEN {[players |-> <<[x |-> x, y |-> y, dead |-> FALSE]>>,
           obstacles |-> LabObstacles, steps |-> 0, last |-> "none"] :
             x \in {10000 + 24 * PLAYER_SPEED, 10000 + 25 * PLAYER_SPEED},
             y \in {30000 - 31 * PLAYER_SPEED, 30000 - 32 * PLAYER_SPEED}}
    ELSE {[players |-> <<[x |-> x, y |-> 30000, dead |-> FALSE],
                         [x |-> CANVAS_WIDTH - 10000, y |-> 30000, dead |-> d]>>,
           obstacles |-> <<>>, steps |-> 0, last |-> "none"] :
             x \in {10000 + 74 * PLAYER_SPEED, 10000 + 75 * PLAYER_SPEED},
             d \in BOOLEAN}

\* the movement of player p with the direction keys held giving dx, dy: each
\* axis is tested against the obstacles on its own, then the bounds clamp
MovePlayer(c, p, dx, dy) ==
    LET pl == c.players[p]
        step == IF dx # 0 /\ dy # 0 THEN DiagonalStep ELSE PLAYER_SPEED
        nextX == pl.x + dx * step
        nextY == pl.y + dy * step
        collidedX == Collides(nextX, pl.y, c.obstacles)
        collidedY == Collides(pl.x, nextY, c.obstacles)
        x1 == IF collidedX THEN pl.x ELSE nextX
        y1 == IF collidedY THEN pl.y ELSE nextY
    IN  [c EXCEPT !.players[p].x = Max(PLAYER_RADIUS, Min(CANVAS_WIDTH - PLAYER_RADIUS, x1)),
                  !.players[p].y = Max(PLAYER_RADIUS, Min(CANVAS_HEIGHT - PLAYER_RADIUS, y1))]

\* Math.round(v / 20) * 20
Snap20(v) == ((v + 1000) \div 2000) * 2000

\* a barrel or a wall built by player p, who aims along ax, ay: a 30 x 30
\* box around the grid point nearest to the point 40 px ahead
PlaceObstacle(c, p, ax, ay) ==
    LET pl == c.players[p]
        reach == IF ax # 0 /\ ay # 0 THEN PlaceReachDiagonal ELSE PlaceReach
        snapX == Snap20(pl.x + ax * reach)
        snapY == Snap20(pl.y + ay * reach)
    IN  [c EXCEPT !.obstacles = Append(@, [x |-> snapX - 1500, y |-> snapY - 1500,
                                           width |-> 3000, height |-> 3000])]

\* the respawn at the end of a wave: every dead player returns at the centre
RespawnAtCentre(c) ==
    [c EXCEPT !.players = [p \in 1..Len(@) |->
                              IF @[p].dead
                              THEN [@[p] EXCEPT !.dead = FALSE,
                                                !.x = CANVAS_WIDTH \div 2,
                                                !.y = CANVAS_HEIGHT \div 2]
                              ELSE @[p]]]

\* the directions of the keys and of the aim
Directions == {d \in {-1, 0, 1} \X {-1, 0, 1} : d # <<0, 0>>}

\* a tick moves a living player
Move ==
    /\ geo.steps < MaxMoves
    /\ \E p \in 1..Len(geo.players) : \E d \in Directions :
          /\ ~geo.players[p].dead
          /\ geo' = [MovePlayer(geo, p, d[1], d[2]) EXCEPT !.steps = @ + 1, !.last = "move"]
    /\ UNCHANGED <<config, gameState, maxUnlockedLevel, isPaused, animationFrameId,
                   loopScheduled, g, obs>>

\* a tick in which a living player of the players[] engine builds
Place ==
    /\ engine # "solo" /\ geo.steps < MaxMoves
    /\ \E p \in 1..Len(geo.players) : \E d \in Directions :
          /\ ~geo.players[p].dead
          /\ geo' = [PlaceObstacle(geo, p, d[1], d[2]) EXCEPT !.steps = @ + 1, !.last = "place"]
    /\ UNCHANGED <<config, gameState, maxUnlockedLevel, isPaused, animationFrameId,
                   loopScheduled, g, obs>>

\* the tick that ends a wave with a player dead
WaveRespawn ==
    /\ engine # "solo" /\ geo.steps < MaxMoves
    /\ \E p \in 1..Len(geo.players) : geo.players[p].dead
    /\ geo' = [RespawnAtCentre(geo) EXCEPT !.steps = @ + 1, !.last = "respawn"]
    /\ UNCHANGED <<config, gameState, maxUnlockedLevel, isPaused, animationFrameId,
                   loopScheduled, g, obs>>

----------------------------------------------------------------------------
Init ==
    /\ (InitSolo \/ InitCoop \/ InitRespawn)
    /\ gameState = "PLAYING"
    /\ maxUnlockedLevel \in SnapProgress
    /\ isPaused = FALSE
    /\ animationFrameId = 1
    /\ loopScheduled = TRUE
    /\ obs = InitObs
    /\ geo = NoGeo

Next == TickSolo \/ TickCoop \/ TickRespawn \/ TickPaused \/ HandleKeyDown

Spec == Init /\ [][Next]_vars

\* the canvas on its own: a run right after mount, solo on level 2 or co-op
\* on level 1, with the players somewhere on the canvas
InitMove ==
    /\ \/ engine = "solo" /\ gameMode = "CAMPAIGN" /\ levelId = 2
       \/ engine = "coop" /\ gameMode = "COOP" /\ levelId = 1
    /\ difficulty = "NORMAL"
    /\ g = InitRefs(NumPlayers)
    /\ gameState = "PLAYING"
    /\ maxUnlockedLevel = 1
    /\ isPaused = FALSE
    /\ animationFrameId = 1
    /\ loopScheduled = TRUE
    /\ obs = InitObs
    /\ geo \in SnapGeo

NextMove == Move \/ Place \/ WaveRespawn

SpecMove == InitMove /\ [][NextMove]_vars

----------------------------------------------------------------------------
(* The properties. *)

\* C1: in every run the core signals game-over to the host at most once:
\* after the first onGameOver call no further call is made, neither later in
\* the same tick nor on a later tick.
C1_SignalledOnce == Len(obs.gameOverCalls) <= 1

\* C2: when the last live hostile of the final wave is eliminated on the tick
\* on which the last living player's hp reaches zero, the run is never
\* reported to the host as a victory.
C2_DefeatTakesPrecedence ==
    obs.endedTogether => "victory" \notin Range(obs.gameOverCalls)

\* an unpaused tick is being taken
TickStep == obs'.ticks = obs.ticks + 1

\* the scheduler states a tick can move to from the state ws
WaveSuccessors(ws) ==
    CASE ws = "SPAWNING" -> {"SPAWNING", "CLEARING"}
      [] ws = "CLEARING" -> {"CLEARING", "INTERMISSION"}
      [] OTHER -> {"INTERMISSION", "SPAWNING"}

\* the run can go past wave TOTAL_WAVES
Unending == gameMode = "ENDLESS" \/ (engine # "solo" /\ gameMode = "COOP")

\* C3 as a step: outside time-attack the scheduler only moves SPAWNING ->
\* CLEARING -> INTERMISSION -> SPAWNING, it leaves SPAWNING only with the
\* quota spent, the tick that finds CLEARING with no live hostile either
\* starts the next intermission with the wave counter one higher or (on the
\* final wave) signals victory, and the wave counter changes in no other step.
C3_Step ==
    gameMode # "TIME_ATTACK" =>
        /\ g'.waveState \in WaveSuccessors(g.waveState)
        /\ g'.wave \in {g.wave, g.wave + 1}
        /\ g'.waveReached = g'.wave
        /\ (g'.wave = g.wave + 1) <=>
               (g.waveState = "CLEARING" /\ g'.waveState = "INTERMISSION")
        /\ (g.waveState = "SPAWNING" /\ g'.waveState = "CLEARING") => g.enemiesToSpawn <= 0
        /\ (TickStep /\ g.waveState = "CLEARING" /\ g.enemies = <<>>) =>
               IF Unending \/ g.wave < TOTAL_WAVES
               THEN /\ g'.waveState = "INTERMISSION" /\ g'.wave = g.wave + 1
                    /\ "victory" \notin Range(obs'.tickCalls)
               ELSE /\ g'.waveState = "CLEARING" /\ g'.wave = g.wave
                    /\ obs'.tickCalls = <<"victory">>
                    /\ ~loopScheduled'
        /\ (TickStep /\ ~(g.waveState = "CLEARING" /\ g.enemies = <<>>)) =>
               "victory" \notin Range(obs'.tickCalls)

\* C3: outside time-attack, a wave whose quota is spawned and whose hostiles
\* are all eliminated takes the scheduler from SPAWNING through CLEARING to
\* the next INTERMISSION (or to victory on the final wave) exactly once, and
\* the wave counter rises by exactly one for it.
C3_WaveRoundTrip == [][C3_Step]_vars

\* a tick has just taken a cleared wave 4 to the intermission of wave 5
C3_Witness ==
    /\ gameMode # "TIME_ATTACK" /\ obs.ticks > 0
    /\ g.waveState = "INTERMISSION" /\ g.intermissionTimer = 180 /\ g.wave = 5

\* C4: a player projectile delivers at most 1 + pierce hostile hits over its
\* whole lifetime, and when its hits destroy it it has delivered exactly
\* 1 + pierce of them.
C4_HitsWithinPierce ==
    /\ \A k \in 1..Len(g.bullets) : g.bullets[k].hits <= g.bullets[k].max
    /\ \A b \in obs.spent : b.hits <= b.max /\ (b.byHits => b.hits = b.max)

\* C5: a hostile produces at most one death event, a hostile removed from
\* the live set has produced exactly one, the event is produced at hp <= 0,
\* and the kill counter counts the events.
C5_OneDeathEvent ==
    /\ \A i, j \in 1..Len(obs.deaths) : obs.deaths[i].id = obs.deaths[j].id => i = j
    /\ \A k \in 1..Len(obs.removed) :
          \E i \in 1..Len(obs.deaths) : obs.deaths[i].id = obs.removed[k]
    /\ \A i, j \in 1..Len(obs.removed) : obs.removed[i] = obs.removed[j] => i = j
    /\ \A i \in 1..Len(obs.deaths) : obs.deaths[i].hp <= 0
    /\ g.kills = Len(obs.deaths)

\* C6: while the pause flag is set no step changes the simulation state:
\* neither the frame callback nor a key press (reload, weapon switch).
C6_PausedFreezes == [][isPaused => g' = g]_vars

\* the reload key was pressed while paused, with an empty clip and no reload
\* under way, and a paused frame has run
C6_Witness ==
    /\ obs.pausedReload /\ obs.pausedFrames > 0
    /\ g.ps[1].ammo[g.ps[1].currentWeapon].clip = 0
    /\ g.ps[1].reloadTimer = 0

\* C7: player hp and hostile hp are never negative.
C7_HpNeverNegative ==
    /\ \A p \in 1..Len(g.players) : g.players[p].hp >= 0
    /\ \A k \in 1..Len(g.enemies) : g.enemies[k].hp >= 0

\* C8: at the end of every tick every player's and hostile's hp is at most
\* its maxHp, every clip at most the weapon's clipSize and every reserve at
\* most the weapon's maxReserve.
C8_WithinMaxima ==
    /\ \A p \in 1..Len(g.players) : g.players[p].hp <= g.players[p].maxHp
    /\ \A k \in 1..Len(g.enemies) : g.enemies[k].hp <= g.enemies[k].maxHp
    /\ \A p \in 1..Len(g.ps) : \A w \in WeaponType :
          /\ g.ps[p].ammo[w].clip <= WEAPON_STATS[w].clipSize
          /\ g.ps[p].ammo[w].reserve <= WEAPON_STATS[w].maxReserve

\* a medkit was picked up by a player who then stands at full hp
C8_Witness ==
    /\ "MEDKIT" \in obs.picked
    /\ g.players[1].hp = g.players[1].maxHp

\* C9: in time-attack the scheduler stays in SPAWNING, the countdown and the
\* count of unpaused ticks add up to the N the countdown started from, and
\* victory has been signalled exactly when N unpaused ticks have run.
C9_TimeAttackEndsOnNthTick ==
    gameMode = "TIME_ATTACK" =>
        /\ g.waveState = "SPAWNING"
        /\ g.timeElapsed + g.timeAttackTimer = TIME_ATTACK_LIMIT * 60
        /\ ("victory" \in Range(obs.gameOverCalls)) <=> (g.timeAttackTimer <= 0)
        /\ g.timeAttackTimer >= 0

\* the N-th unpaused tick has run and signalled victory with a hostile alive
C9_Witness ==
    /\ gameMode = "TIME_ATTACK"
    /\ g.timeElapsed = TIME_ATTACK_LIMIT * 60
    /\ obs.gameOverCalls = <<"victory">>
    /\ g.enemies # <<>>

\* C10: on the boss wave of a boss-bearing level the scheduler spawns one
\* hostile, of the boss type, and nothing more; on any other wave it spawns
\* no boss.
C10_OneBossOnBossWave ==
    IF BossWave(g.wave)
    THEN obs.spawned # <<>> => (obs.spawned = <<"BOSS">> /\ g.enemiesToSpawn = 0)
    ELSE "BOSS" \notin Range(obs.spawned)

\* the tick being taken ran to its end (no game-over signal cut it short)
FullTick == TickStep /\ obs'.tickCalls = <<>>

\* the reloads of player p completed by the step
Completed(p) == {r \in obs'.reloaded : r.p = p}

\* a completed reload moved min(clipSize - clip, reserve) rounds from the
\* reserve to the clip
MovedShortfall(r) ==
    LET amount == Min(WEAPON_STATS[r.w].clipSize - r.clip, r.reserve)
    IN  r.clipAfter = r.clip + amount /\ r.reserveAfter = r.reserve - amount

\* C11 as a step, for every player alive at the start of it: a reload sets
\* the countdown to the weapon's reloadTime; a full tick takes a countdown
\* above 1 down by one and completes nothing; the tick that finds it at 1
\* takes it to 0 and completes the reload of the weapon in hand, moving
\* min(clipSize - clip, reserve) rounds; a tick that finds it at 0 completes
\* nothing.
C11_Step ==
    \A p \in 1..Len(g.ps) :
        LET t  == g.ps[p].reloadTimer
            t2 == g'.ps[p].reloadTimer
        IN  ~g.players[p].dead =>
              /\ (t = 0 /\ t2 > 0) =>
                     t2 = WEAPON_STATS[g'.ps[p].currentWeapon].reloadTime
              /\ (FullTick /\ t > 1) => (t2 = t - 1 /\ Completed(p) = {})
              /\ (FullTick /\ t = 1) =>
                     /\ t2 = 0
                     /\ \E r \in Completed(p) :
                           /\ Completed(p) = {r}
                           /\ r.w = g.ps[p].currentWeapon
                           /\ MovedShortfall(r)
              /\ (FullTick /\ t = 0) => Completed(p) = {}

\* C11: for every weapon, a reload started with clip c and reserve r
\* completes exactly reloadTime unpaused ticks later and at that moment
\* moves exactly min(clipSize - c, r) rounds from the reserve to the clip.
C11_ReloadTransfer == [][C11_Step]_vars

\* the countdown value a tick must find to complete the reload: 1 where the
\* reload completes on reaching 0, 2 in part_003, which completes it on
\* reaching 1
DoneAt == IF engine = "respawn" THEN 2 ELSE 1

\* the transfer of a completed reload as the engines make it: the pistol's
\* clip is filled and its reserve untouched, any other weapon moves the
\* shortfall or what the reserve holds
Transferred(r) ==
    IF r.w = "PISTOL"
    THEN r.clipAfter = WEAPON_STATS[r.w].clipSize /\ r.reserveAfter = r.reserve
    ELSE MovedShortfall(r)

\* C11 amended, as a step, for every player alive at the start of it: a
\* reload sets the countdown to the weapon's reloadTime; a full tick takes a
\* running countdown down by one; the tick that finds it at DoneAt, and no
\* other, completes the reload of the weapon in hand, filling the pistol's
\* clip from nothing and moving min(clipSize - clip, reserve) rounds from
\* the reserve to the clip of any other weapon.
C11_AmendedStep ==
    \A p \in 1..Len(g.ps) :
        LET t  == g.ps[p].reloadTimer
            t2 == g'.ps[p].reloadTimer
        IN  ~g.players[p].dead =>
              /\ (t = 0 /\ t2 > 0) =>
                     t2 = WEAPON_STATS[g'.ps[p].currentWeapon].reloadTime
              /\ (FullTick /\ t > 0) =>
                     \/ t2 = t - 1
                     \/ t = 1 /\ t2 = WEAPON_STATS[g'.ps[p].currentWeapon].reloadTime
              /\ (FullTick /\ t = DoneAt) =>
                     \E r \in Completed(p) :
                        /\ Completed(p) = {r}
                        /\ r.w = g.ps[p].currentWeapon
                        /\ Transferred(r)
              /\ (FullTick /\ t # DoneAt) => Completed(p) = {}

\* C11 amended: for every weapon other than the pistol a reload, when its
\* countdown runs out, moves exactly min(clipSize - clip, reserve) rounds
\* from the reserve to the clip; the pistol's reload fills the clip and
\* leaves the reserve as it is.  The countdown starts at reloadTime and
\* falls by one per unpaused tick.
C11_ReloadTransferAmended == [][C11_AmendedStep]_vars

\* a shotgun reload has completed short: clip 2 and reserve 3 became clip 5
\* and reserve 0
C11_Witness ==
    \E r \in obs.reloaded :
        /\ r.w = "SHOTGUN" /\ r.clip = 2 /\ r.reserve = 3
        /\ r.clipAfter = 5 /\ r.reserveAfter = 0

\* C12 as a step: a reload key pressed for a player whose countdown is
\* running changes nothing in the simulation state, and a full tick takes a
\* countdown above 1 down by exactly one whether or not the trigger (which
\* asks for a reload on an empty clip) is held.
C12_Step ==
    /\ obs'.asked \in {"reload1", "reload2"} => g' = g
    /\ \A p \in 1..Len(g.ps) :
          (FullTick /\ ~g.players[p].dead /\ g.ps[p].reloadTimer > 1) =>
              g'.ps[p].reloadTimer = g.ps[p].reloadTimer - 1

\* C12: requesting a reload while that player's reload countdown is already
\* running leaves the countdown value unchanged (neither reset nor
\* extended), so the reload completes on the same tick as if the extra
\* request had never been made.
C12_ReloadIdempotent == [][C12_Step]_vars

\* the reload key has just been pressed while player 1 was reloading a clip
\* that is not full
C12_Witness ==
    /\ obs.asked = "reload1" /\ ~obs.paused
    /\ g.ps[1].reloadTimer > 0
    /\ g.ps[1].ammo[g.ps[1].currentWeapon].clip
           < WEAPON_STATS[g.ps[1].currentWeapon].clipSize

\* the projectiles of player p in flight in the refs r
ShotsOf(r, p) == Len(SelectSeq(r.bullets, LAMBDA b : b.owner = p))

\* C13 as a step: in a full tick in which nothing is picked up, a player who
\* pulls the trigger with an empty clip, no reserve and no reload under way
\* gets no new projectile, keeps clip and reserve at 0 and the reload
\* countdown at 0, and keeps the last-shot timestamp; the shots-fired
\* counter stays when every player pulls dry.
C13_Step ==
    (FullTick /\ obs'.picked = {}) =>
        /\ \A p \in obs'.dry :
              LET w == g.ps[p].currentWeapon
              IN  /\ g'.ps[p].ammo[w] = [clip |-> 0, reserve |-> 0]
                  /\ g'.ps[p].reloadTimer = 0
                  /\ g'.ps[p].lastShot = g.ps[p].lastShot
                  /\ ShotsOf(g', p) <= ShotsOf(g, p)
        /\ (obs'.dry = 1..Len(g.ps)) => g'.shotsFired = g.shotsFired

\* C13: pulling the trigger with an empty clip and zero reserve changes no
\* game state: no projectile is created, clip and reserve stay at 0, no
\* reload countdown starts, shots-fired is not incremented and the last-shot
\* timestamp used for the fire cooldown is not modified.
C13_DryFireChangesNothing == [][C13_Step]_vars

\* every player's weapon in hand is one of that player's unlocked weapons
ActiveUnlocked ==
    \A p \in 1..Len(g.ps) : g.ps[p].currentWeapon \in Range(g.ps[p].unlockedWeapons)

\* C14: a request to switch to a weapon the player has not unlocked changes
\* nothing in the simulation state, and in every state each player's active
\* weapon is a member of that player's unlocked-weapon set.
C14_ActiveWeaponUnlocked ==
    /\ []ActiveUnlocked
    /\ [][obs'.asked = "locked" => g' = g]_vars

\* a number key has just asked, unpaused, for a weapon player 1 has not
\* unlocked
C14_Witness == obs.asked = "locked" /\ ~obs.paused


\* C15 as a step: outside time-attack a tick reports a victory only in a
\* campaign run whose scheduler it found CLEARING wave TOTAL_WAVES with the
\* quota spent and no hostile alive, and a tick of an endless run that finds
\* a wave cleared starts the next intermission and reports no victory.
C15_Step ==
    (TickStep /\ gameMode # "TIME_ATTACK") =>
        /\ "victory" \in Range(obs'.tickCalls) =>
               /\ gameMode = "CAMPAIGN"
               /\ g.wave = TOTAL_WAVES /\ g.waveState = "CLEARING"
               /\ g.enemiesToSpawn <= 0
               /\ g.enemies = <<>> /\ g'.enemies = <<>>
        /\ gameMode = "ENDLESS" =>
               /\ "victory" \notin Range(obs'.tickCalls)
               /\ (g.waveState = "CLEARING" /\ g.enemies = <<>>) =>
                      /\ g'.waveState = "INTERMISSION"
                      /\ g'.intermissionTimer = 180
                      /\ g'.wave = g.wave + 1

\* C15: victory by wave clearance is signalled only when wave 5 of a
\* campaign run has been fully spawned and has no live hostile left; in
\* endless mode a cleared wave always leads to the next INTERMISSION and
\* victory is never signalled.
C15_VictoryOnlyOnFinalWave ==
    /\ [][C15_Step]_vars
    /\ [](gameMode = "ENDLESS" => "victory" \notin Range(obs.gameOverCalls))

\* a tick of a campaign run has just reported the victory of a cleared wave 5
C15_Witness ==
    /\ gameMode = "CAMPAIGN" /\ obs.tickCalls = <<"victory">>
    /\ g.wave = TOTAL_WAVES /\ g.waveState = "CLEARING" /\ g.enemies = <<>>
    /\ ~loopScheduled


\* the enraged flag and the speed boost of every hostile agree: a boss that
\* is enraged is below half of its hp and has had its speed raised once, any
\* other hostile has had no boost
EnragedOnce ==
    \A i \in 1..Len(g.enemies) :
        LET e == g.enemies[i]
        IN  /\ e.enraged => (e.type = "BOSS" /\ 2 * e.hp < e.maxHp)
            /\ e.boosts = IF e.enraged THEN 1 ELSE 0

\* C16 as a step: a boss that a tick finds below half of its maxHp and leaves
\* alive is enraged after the tick, a boss becomes enraged only below half of
\* its maxHp and with one speed boost, and an enraged boss stays enraged with
\* its speed unchanged.
C16_Step ==
    TickStep =>
        \A i \in 1..Len(g.enemies) : \A j \in 1..Len(g'.enemies) :
            (g.enemies[i].type = "BOSS" /\ g'.enemies[j].id = g.enemies[i].id) =>
                LET b == g.enemies[i]
                    a == g'.enemies[j]
                IN  /\ 2 * b.hp < b.maxHp => a.enraged
                    /\ b.enraged => (a.enraged /\ a.boosts = b.boosts)
                    /\ (~b.enraged /\ a.enraged) =>
                           (2 * a.hp < a.maxHp /\ a.boosts = b.boosts + 1)

\* C16: a boss becomes enraged on the first tick on which its hp is below half
\* of its maxHp, its speed boost is applied exactly once, and it never leaves
\* or re-enters the enraged state on later damage.
C16_BossEnragesOnce == [][C16_Step]_vars /\ []EnragedOnce


\* the sum of the numbers of a sequence
RECURSIVE SumSeq(_)
SumSeq(q) == IF q = <<>> THEN 0 ELSE q[1] + SumSeq(Tail(q))

\* a crate created with 100 hp that only 25-damage projectiles have hit
PlainCrate(ob) ==
    /\ ob.type = "CRATE"
    /\ ob.hp + SumSeq(ob.taken) = Pts(100)
    /\ \A k \in 1..Len(ob.taken) : ob.taken[k] = Pts(25)

\* the crates of a list of obstacles
Crates(obstacles) == SelectSeq(obstacles, LAMBDA ob : ob.type = "CRATE")

\* the pickup draws made for crates
CrateDraws(draws) == SelectSeq(draws, LAMBDA d : d.from = "CRATE")

\* C17 as a step: a crate of 100 hp that leaves obstaclesRef in a tick under
\* 25-damage hits has absorbed exactly four of them, the crates that are gone
\* after the tick are the ones that broke in it, and each broken crate has
\* exactly one pickup draw, made at the crate's position.
C17_Step ==
    TickStep =>
        LET gone  == Crates(obs'.broken)
            drawn == CrateDraws(obs'.draws)
        IN  /\ \A k \in 1..Len(gone) :
                   /\ gone[k].hp <= 0
                   /\ PlainCrate(gone[k]) => Len(gone[k].taken) = 4
            /\ Len(Crates(g'.obstacles)) = Len(Crates(g.obstacles)) - Len(gone)
            /\ Len(drawn) = Len(gone)
            /\ \A k \in 1..Len(gone) :
                   /\ drawn[k].pos = gone[k].pos
                   /\ Len(drawn[k].made) <= 1

\* a crate of 100 hp on the field has absorbed fewer than four 25-damage hits
CrateStands ==
    \A k \in 1..Len(g.obstacles) :
        LET ob == g.obstacles[k]
        IN  (ob.type = "CRATE" => ob.hp > 0) /\ (PlainCrate(ob) => Len(ob.taken) < 4)

KillsNow == Len(obs'.deaths) - Len(obs.deaths)

\* C18 as a step: a tick that runs to its end first takes one off the timer
\* of a running streak and resets the count to 0 when the timer reaches 0,
\* then every kill of the tick adds one to the count and sets the timer back
\* to the window of 120 ticks.
C18_Step ==
    FullTick =>
        LET c == g.combo.count
            t == g.combo.timer
            d == IF c > 0 /\ t - 1 <= 0 THEN 0 ELSE c
        IN  /\ g'.combo.count = d + KillsNow
            /\ g'.combo.timer = IF KillsNow > 0 THEN 120
                                ELSE IF c > 0 THEN t - 1 ELSE t

\* the timer of a running streak is the number of ticks left of the window
\* of 120 since its last kill, and there is no streak without time left
StreakInWindow ==
    IF g.combo.count > 0 THEN g.combo.timer \in 1..120 ELSE g.combo.timer = 0

\* C18: with a 120-tick decay window the combo count is reset to 0 once 120
\* ticks pass without a kill, so kills at ticks 0, 50 and 250 give a combo
\* count of 2 after the second kill (timer 70 -> count 2) and 1 after the
\* third (the streak of 2 has run out before it).
C18_ComboDecayWindow == [][C18_Step]_vars /\ []StreakInWindow

\* a kill has just started a new streak after a streak of two ran out
C18_Witness ==
    /\ g.combo = [count |-> 1, timer |-> 120]
    /\ g.maxCombo = 2 /\ g.kills = 3
    /\ Len(obs.deaths) = 1


\* the positions of the table whose cumulative chance exceeds the draw d
Exceeding(d) == {k \in 1..Len(ItemOrder) : d.rand < CumulativeChance(k, d.mult)}

\* the sum of the chances of the table under the multiplier of the draw d
TotalChance(d) == CumulativeChance(Len(ItemOrder), d.mult)

\* the pickup draws of the last tick follow the rule: none made when the draw
\* is at least the sum of the chances, else exactly one, of the first type in
\* iteration order whose cumulative chance exceeds the draw, at the place
\* the draw was made for
DrawsByRule ==
    \A n \in 1..Len(obs.draws) :
        LET d == obs.draws[n]
        IN  /\ Len(d.made) <= 1
            /\ d.rand >= TotalChance(d) => d.made = <<>>
            /\ d.rand < TotalChance(d) =>
                   /\ Len(d.made) = 1
                   /\ d.made[1].pos = d.pos
                   /\ \E k \in Exceeding(d) :
                          /\ d.made[1].type = ItemOrder[k]
                          /\ \A j \in 1..(k - 1) : j \notin Exceeding(d)

\* C19: a pickup draw with random value u creates the first item type, in
\* iteration order, whose cumulative probability exceeds u, creates no
\* pickup when u is at least the sum of all item probabilities, and never
\* creates more than one pickup per draw (itemsRef grows by at most one item
\* per draw of the tick).
C19_WeightedDraw ==
    /\ []DrawsByRule
    /\ [][TickStep => Len(g'.items) <= Len(g.items) + Len(obs'.draws)]_vars

\* a draw of 0.035 has just made the second type of the solo table (the
\* cumulative chance of the first is 0.03, of the second 0.04)
C19_Witness ==
    /\ engine = "solo" /\ Len(obs.draws) = 1
    /\ obs.draws[1].rand = 35 /\ Len(obs.draws[1].made) = 1
    /\ obs.draws[1].made[1].type = "NUKE"
    /\ Len(g.items) = 1 /\ g.items[1].type = "NUKE"


\* C20 as a step: no step lowers maxUnlockedLevel, and a step raises it only
\* as the tick of a campaign run that reports a victory, to the id of the
\* level after the one played.
C20_Step ==
    /\ maxUnlockedLevel' >= maxUnlockedLevel
    /\ maxUnlockedLevel' > maxUnlockedLevel =>
           /\ gameMode = "CAMPAIGN"
           /\ "victory" \in Range(obs'.tickCalls)
           /\ maxUnlockedLevel' = levelId + 1
    /\ (obs'.gameOverCalls # obs.gameOverCalls /\ "victory" \notin Range(obs'.tickCalls)) =>
           maxUnlockedLevel' = maxUnlockedLevel

\* C20: the highest-unlocked-level pointer never decreases: any game-over
\* either leaves it unchanged or raises it, and only a campaign victory can
\* raise it.
C20_UnlockedLevelMonotonic == [][C20_Step]_vars

\* the victory of campaign level 3, played as the furthest level unlocked,
\* has unlocked level 4
C20_Witness ==
    /\ gameMode = "CAMPAIGN" /\ levelId = 3
    /\ "victory" \in Range(obs.gameOverCalls)
    /\ maxUnlockedLevel = 4


\* some player has hp left
SomeoneUp(r) == \E p \in 1..Len(r.players) : r.players[p].hp > 0

\* C21 as a step: the tick that takes the last player with hp left to zero
\* hp or below signals defeat, and a tick signals defeat only when it leaves
\* no player with hp.
C21_Step ==
    TickStep =>
        /\ (SomeoneUp(g) /\ AllDown(g')) => "defeat" \in Range(obs'.tickCalls)
        /\ "defeat" \in Range(obs'.tickCalls) => AllDown(g')

\* C21: defeat is signalled on the very tick on which the last living
\* player's hp reaches zero, whatever dealt the damage (hostile contact,
\* hostile projectile, exploder or barrel explosion), and it is never
\* signalled while any player is still alive.
C21_DefeatOnTheTick == [][C21_Step]_vars


\* C22 as a step: a step that changes the weapon a player has in hand leaves
\* that player with no reload running and with the clip and reserve of the
\* new weapon as they were, and a reload that completes in a tick fills the
\* weapon the player had in hand when the tick began.
C22_Step ==
    /\ \A p \in 1..Len(g.ps) :
           g'.ps[p].currentWeapon # g.ps[p].currentWeapon =>
               /\ g'.ps[p].reloadTimer = 0
               /\ g'.ps[p].ammo[g'.ps[p].currentWeapon]
                      = g.ps[p].ammo[g'.ps[p].currentWeapon]
    /\ \A r \in obs'.reloaded : r.w = g.ps[r.p].currentWeapon

\* C22: a reload's ammunition transfer is applied only to the weapon that
\* was active when the reload started: if the player's active weapon changes
\* before the countdown ends (number-key switch, weapon cycling, or a
\* combo-unlock auto-switch), the reload is cancelled and the newly selected
\* weapon's clip and reserve are not changed by it.
C22_ReloadBoundToWeapon == [][C22_Step]_vars


\* the death events of the tick being taken
NewDeaths == SubSeq(obs'.deaths, Len(obs.deaths) + 1, Len(obs'.deaths))

\* the ids of the exploders alive when the tick begins
ExploderIds == {g.enemies[k].id : k \in {j \in 1..Len(g.enemies) : g.enemies[j].type = "EXPLODER"}}

\* the pickup draws of the tick being taken that were made for kills
KillDraws == SelectSeq(obs'.draws, LAMBDA d : d.from = "KILL")

\* C23 as a step: an exploder dies at most once; an exploder that the tick
\* finds touching an unshielded living player dies in the tick and the
\* player loses hp to its blast; and the pickup draws of the tick are those
\* of the hostiles other than exploders that died in it.
C23_Step ==
    TickStep =>
        /\ \A id \in ExploderIds :
               Len(SelectSeq(obs'.deaths, LAMBDA d : d.id = id)) <= 1
        /\ \A k \in 1..Len(g.enemies) : \A p \in 1..Len(g.players) :
               (/\ g.enemies[k].type = "EXPLODER"
                /\ Overlap(g.enemies[k].pos, g.players[p].pos)
                /\ g.players[p].hp > 0 /\ ~g.players[p].dead
                /\ g.shieldTimer <= 0 /\ obs'.picked = {}) =>
                   /\ \E n \in 1..Len(NewDeaths) : NewDeaths[n].id = g.enemies[k].id
                   /\ g'.players[p].hp < g.players[p].hp
        /\ Len(KillDraws) =
               Len(SelectSeq(NewDeaths, LAMBDA d : d.id \notin ExploderIds))

\* C23: when an exploder's hp reaches zero, by damage or by touching a
\* player, it detonates exactly once, damaging hostiles and players within
\* its blast radius but not itself, and no pickup draw is made for it.
C23_ExploderDetonatesOnce == [][C23_Step]_vars

\* the hostiles of a type other than boss that the tick being taken finds
\* alive, and the bosses that are alive through it
Minors == {k \in 1..Len(g.enemies) : g.enemies[k].type # "BOSS" /\ g.enemies[k].hp > 0}
Bosses == {k \in 1..Len(g.enemies) : g.enemies[k].type = "BOSS"
                                      /\ g.enemies[k].id \in Ids(g'.enemies)}

\* C24 as a step of a tick that runs to its end: with the freeze timer
\* positive throughout the tick, no hostile other than a boss takes a step
\* or fires; and every boss takes its step, frozen or not.
C24_Step ==
    FullTick =>
        /\ g.freezeTimer > 1 =>
               \A k \in Minors : g.enemies[k].id \notin obs'.advanced \cup obs'.fired
        /\ \A k \in Bosses : g.enemies[k].id \in obs'.advanced

\* C24: while the freeze buff is active no non-boss hostile changes position
\* or fires, whereas a boss advances toward its target on every unpaused
\* tick, whether or not freeze is active.
C24_FreezeStopsAllButBoss == [][C24_Step]_vars

\* the durations a projectile has at the end of the tick it is fired in
FreshDurations ==
    UNION {{SnapBullet(w, 1, "FIELD").duration, SnapBullet(w, 1, "FIELD").duration - 1} :
              w \in DOMAIN WEAPON_STATS}

\* the projectile b of the state after the tick is one of the state before it,
\* one tick older
Aged(b) == \E k \in 1..Len(g.bullets) : b = [g.bullets[k] EXCEPT !.duration = @ - 1, !.hits = b.hits]

\* C25 as a step of a tick that runs to its end: every projectile left in
\* flight has a positive duration, and is either one of the tick before with
\* its duration one lower or a projectile fired in the tick.
C25_Step ==
    FullTick =>
        \A k \in 1..Len(g'.bullets) :
            /\ g'.bullets[k].duration > 0
            /\ Aged(g'.bullets[k]) \/ g'.bullets[k].duration \in FreshDurations

\* C25: a player projectile's remaining duration decreases by one on every
\* unpaused tick and the projectile is destroyed no later than the tick on
\* which that duration reaches zero, whichever weapon the player has selected.
C25_ProjectileExpires == [][C25_Step]_vars

\* C26, for the engines that keep a dead mark on a player (the solo loop has
\* one player and ends the run instead): after every tick a player is marked
\* dead exactly when the player's hp is zero or below.
C26_DeadIffNoHp ==
    (engine # "solo" /\ obs.ticks > 0) =>
        \A p \in 1..Len(g.players) : g.players[p].dead <=> g.players[p].hp <= 0

\* C27 as a step: a tick that the shield timer stays positive through (it is
\* counted down before damage is resolved) lowers no player's hp.
C27_Step ==
    (TickStep /\ g.shieldTimer > 1) =>
        \A p \in 1..Len(g.players) : g'.players[p].hp >= g.players[p].hp

\* C27: on every tick on which the shield timer is positive when damage is
\* resolved, no player's hp decreases from any source: hostile contact,
\* hostile projectiles, exploder explosions or barrel explosions.
C27_ShieldBlocksAllDamage == [][C27_Step]_vars

\* a shielded tick on a contact frame has passed with a hostile on player 1,
\* whose hp is what it was
C27_Witness ==
    /\ obs.ticks = 1 /\ g.shieldTimer = 199 /\ g.frame = 61
    /\ \E k \in 1..Len(g.enemies) : g.enemies[k].pos = g.players[1].pos
    /\ g.players[1].hp = g.players[1].maxHp

\* the death events of the tick being taken that are those of hostile id
DeathsOf(id) == SelectSeq(NewDeaths, LAMBDA d : d.id = id)

\* C28 as a step. A tick in which the full-clear item is picked up leaves
\* every hostile that was alive in it either dead by the tick's own death
\* processing or on the list with hp 0. A tick that runs to its end and
\* finds a hostile at hp 0 processes its death exactly once and removes it:
\* one death event with the reward of its type under the difficulty and the
\* double-score buff of the tick; and the kills, the combo and the pickup
\* draws of the tick go up by one per death event.
C28_Step ==
    /\ (TickStep /\ "NUKE" \in obs'.picked) =>
           /\ \A k \in 1..Len(g.enemies) :
                  g.enemies[k].hp > 0 =>
                      \/ Len(DeathsOf(g.enemies[k].id)) = 1
                      \/ \E j \in 1..Len(g'.enemies) :
                             g'.enemies[j].id = g.enemies[k].id /\ g'.enemies[j].hp = 0
           /\ \A j \in 1..Len(g'.enemies) : g'.enemies[j].hp = 0
    /\ FullTick =>
           /\ \A k \in 1..Len(g.enemies) :
                  g.enemies[k].hp <= 0 =>
                      /\ Len(DeathsOf(g.enemies[k].id)) = 1
                      /\ DeathsOf(g.enemies[k].id)[1].pts =
                             KillScore(g.enemies[k].type, g.doublePointsTimer > 1)
                      /\ g.enemies[k].id \notin Ids(g'.enemies)
           /\ (\E k \in 1..Len(g.enemies) : g.enemies[k].hp <= 0) =>
                  /\ g'.kills = g.kills + Len(NewDeaths)
                  /\ g'.combo.count \in {Len(NewDeaths), g.combo.count + Len(NewDeaths)}
                  /\ Len(KillDraws) = Len(NewDeaths)

\* C28: picking up the full-clear item sets the hp of every hostile alive at
\* that moment to zero, and each of those hostiles then goes through normal
\* death processing exactly once: one kill, its score reward with the
\* current difficulty and double-score multipliers, one combo increment and
\* one pickup draw.
C28_FullClearKillsOnce == [][C28_Step]_vars

\* C29: at the end of every tick no living player's circle intersects an
\* obstacle and every player lies within the canvas bounds, including after
\* diagonal moves, after a respawn and after obstacles are placed.
C29_PlayersClear ==
    \A p \in 1..Len(geo.players) :
        /\ ~geo.players[p].dead =>
               ~Collides(geo.players[p].x, geo.players[p].y, geo.obstacles)
        /\ geo.players[p].x \in PLAYER_RADIUS..(CANVAS_WIDTH - PLAYER_RADIUS)
        /\ geo.players[p].y \in PLAYER_RADIUS..(CANVAS_HEIGHT - PLAYER_RADIUS)

\* the players other than p that are alive before the tick being taken
MatesUp(p) == {q \in 1..Len(g.players) \ {p} : ~g.players[q].dead /\ g.players[q].hp > 0}

\* C30 as a step of a tick of the engine with the timed respawn, in a
\* multiplayer run, for every player p. A player who runs out of hp with a
\* teammate alive is dead with 300 ticks to wait. A dead player with a
\* teammate alive and more than one tick to wait stays dead and waits one
\* tick less; with one tick to wait the player is alive after the tick, at
\* the place of a teammate who was alive, with hp at maxHp. With nobody alive
\* the wait stays what it is.
C30_Step ==
    (TickStep /\ engine = "respawn" /\ isMultiplayer) =>
        \A p \in 1..Len(g.players) :
            LET me == g.players[p]
                after == g'.players[p]
            IN  /\ (~me.dead /\ me.hp > 0 /\ after.hp <= 0 /\ MatesUp(p) # {}) =>
                       after.dead /\ after.respawnTimer = 300
                /\ (me.dead /\ MatesUp(p) # {} /\ me.respawnTimer > 1) =>
                       after.dead /\ after.respawnTimer = me.respawnTimer - 1
                /\ (me.dead /\ MatesUp(p) # {} /\ me.respawnTimer = 1) =>
                       /\ ~after.dead /\ after.hp = after.maxHp
                       /\ \E q \in MatesUp(p) : after.pos = g.players[q].pos
                /\ (me.dead /\ AllDown(g)) => after.respawnTimer = me.respawnTimer

\* C30: in co-op with timed auto-respawn, a player who dies while a teammate
\* is alive is revived exactly 300 unpaused ticks later, at a living
\* teammate's position and with hp equal to maxHp; the countdown does not
\* advance on ticks on which no player is alive.
C30_RevivedAfter300 == [][C30_Step]_vars

\* the weapons whose threshold the combo count reaches in the tick being
\* taken: the count after the decay of the streak, then one more per kill
DueUnlocks ==
    LET c == g.combo.count
        d == IF c > 0 /\ g.combo.timer - 1 <= 0 THEN 0 ELSE c
    IN  {COMBO_UNLOCK_THRESHOLDS[n] :
            n \in {d + k : k \in 1..KillsNow} \cap DOMAIN COMBO_UNLOCK_THRESHOLDS}

\* C31 as a step of the engines with the unlock table: no step takes a weapon
\* out of an unlocked list; a tick that runs to its end adds to every
\* player's list exactly the weapons of the thresholds the count reaches in
\* it, each once, and a weapon added that is no barrel or wall is in that
\* player's hand after the tick; a key press adds none.
C31_Step ==
    engine # "solo" =>
        \A p \in 1..Len(g.ps) :
            LET old == g.ps[p].unlockedWeapons
                new == g'.ps[p].unlockedWeapons
            IN  /\ Range(old) \subseteq Range(new)
                /\ ~TickStep => new = old
                /\ FullTick =>
                       /\ Range(new) = Range(old) \cup DueUnlocks
                       /\ Len(new) = Cardinality(Range(new))
                       /\ \A w \in DueUnlocks \ Range(old) :
                              w \notin {"BARREL", "WALL"} => g'.ps[p].currentWeapon = w

\* C31: when the combo count reaches a key of the unlock table, the mapped
\* weapon is added to the unlocked set of every player who lacks it and,
\* unless it is a barrel or wall, becomes that player's active weapon; no
\* weapon is unlocked at a non-threshold count and no weapon is ever removed
\* from an unlocked set.
C31_ComboUnlocks == [][C31_Step]_vars

\* the fifth kill of a streak has just unlocked the UZI for both players and
\* put it in the hands of player 2, who held a barrel
C31_Witness ==
    /\ engine # "solo" /\ obs.ticks = 1 /\ Len(obs.deaths) = 1
    /\ g.combo.count = 5
    /\ \A p \in 1..2 : /\ g.ps[p].unlockedWeapons = <<"PISTOL", "BARREL", "WALL", "UZI">>
                        /\ g.ps[p].currentWeapon = "UZI"

\* the living players with a barrel or wall in hand in the refs r
Placers(r) ==
    {p \in 1..Len(r.ps) : ~r.players[p].dead /\ r.ps[p].currentWeapon \in {"BARREL", "WALL"}}

\* what the tick being taken takes from the reserve of the placeable in the
\* hand of player p
ReserveDrop(p) ==
    LET w == g.ps[p].currentWeapon
    IN  g.ps[p].ammo[w].reserve - g'.ps[p].ammo[w].reserve

\* the obstacles the tick being taken adds
RECURSIVE SumDrops(_)
SumDrops(ps) ==
    IF ps = {} THEN 0
    ELSE LET p == CHOOSE q \in ps : TRUE IN ReserveDrop(p) + SumDrops(ps \ {p})

ObstaclesAdded == Len(g'.obstacles) + Len(obs'.broken) - Len(g.obstacles)

\* C32 as a step of the engines with placeables: in a tick that runs to its
\* end and picks nothing up, every living player with a barrel or wall in
\* hand keeps its clip, loses at most one unit of its reserve, loses one when
\* the trigger is pulled with the reserve positive and the placement
\* cooldown elapsed, and the obstacles added are as many as the units taken
\* (none with reserve 0).
C32_Step ==
    (FullTick /\ engine # "solo" /\ obs'.picked = {}) =>
        /\ \A p \in Placers(g) :
              LET w == g.ps[p].currentWeapon
              IN  /\ g'.ps[p].ammo[w].clip = g.ps[p].ammo[w].clip
                  /\ ReserveDrop(p) \in {0, 1}
                  /\ (p \in obs'.pulled /\ g.ps[p].ammo[w].reserve > 0) => ReserveDrop(p) = 1
        /\ ObstaclesAdded = SumDrops(Placers(g))

\* C32: each barrel or wall placement decreases that weapon's reserve by
\* exactly 1, leaves its clip unchanged and adds exactly one obstacle; a
\* placement succeeds whenever the reserve is positive and the placement
\* cooldown has elapsed, and with reserve 0 nothing is placed.
C32_PlacementUsesReserve == [][C32_Step]_vars

\* C33 as a step: in a tick that runs to its end every pickup consumed has
\* given its effect to exactly one player.
C33_Step == FullTick => \A n \in 1..Len(obs'.takers) : Cardinality(obs'.takers[n]) = 1

\* C33: each pickup's effect is applied at most once: a pickup overlapped by
\* two living players on the same tick is consumed by one of them only, and
\* its effect (heal, ammo refill, buff timer start, full clear) is not
\* applied twice.
C33_PickupAppliedOnce == [][C33_Step]_vars

\* the players whose reload countdown is running throughout the tick being
\* taken: more than the one tick it takes off is left
Reloading == {p \in 1..Len(g.ps) : g.ps[p].reloadTimer > 1}

\* C34 as a step: in a tick a player whose reload countdown is running gets
\* no new projectile in flight and sees none of their clips go down; the
\* shots-fired counter stays when every player is reloading.
C34_Step ==
    TickStep =>
        /\ \A p \in Reloading :
              /\ ShotsOf(g', p) <= ShotsOf(g, p)
              /\ \A w \in DOMAIN g.ps[p].ammo :
                     g'.ps[p].ammo[w].clip >= g.ps[p].ammo[w].clip
        /\ (Reloading = 1..Len(g.ps)) => g'.shotsFired = g.shotsFired

\* C34: while a player's reload countdown is running, that player fires no
\* projectile and no clip of that player is decremented.
C34_NoFireWhileReloading == [][C34_Step]_vars

\* player 1 has held the trigger through a tick of a reload, rounds in the
\* clip and the fire cooldown elapsed, and the countdown is still running
C34_Witness ==
    /\ obs.ticks >= 1 /\ obs.held = {1}
    /\ g.ps[1].reloadTimer > 0
    /\ g.ps[1].ammo[g.ps[1].currentWeapon].clip > 0
    /\ g.frame - g.ps[1].lastShot > WEAPON_STATS[g.ps[1].currentWeapon].cooldown

\* the scheduler pushes a hostile in the tick being taken
SchedulerSpawns == obs'.spawned # obs.spawned /\ obs'.spawned # <<>>

\* the tick being taken ends the clearing of a wave: the next intermission
\* starts or victory is signalled
ClearingEnds ==
    /\ g.waveState = "CLEARING"
    /\ g'.waveState # "CLEARING" \/ "victory" \in Range(obs'.tickCalls)

\* C35 as a step: a tick in which the scheduler pushes a hostile has the
\* scheduler in SPAWNING, and a tick that ends CLEARING started, and ends,
\* with no hostile in the live set.
C35_Step ==
    TickStep =>
        /\ SchedulerSpawns => g'.waveState = "SPAWNING"
        /\ ClearingEnds => g.enemies = <<>> /\ g'.enemies = <<>>

\* no hostile is alive during an intermission
IntermissionEmpty == g.waveState = "INTERMISSION" => g.enemies = <<>>

\* C35: the scheduler creates hostiles only while it is in SPAWNING, so the
\* live-hostile set is empty on every tick spent in INTERMISSION, and
\* CLEARING does not end while any hostile, including boss-summoned
\* reinforcements, is alive.
C35_SpawnOnlyInSpawning == [][C35_Step]_vars /\ []IntermissionEmpty

\* the boss wave is still being cleared two ticks after the boss called its
\* three reinforcements: the boss has died since and they are alive
C35_Witness ==
    /\ obs.ticks = 3 /\ g.waveState = "CLEARING" /\ g.frame = 602
    /\ Len(g.enemies) = 3
    /\ \A k \in 1..Len(g.enemies) : g.enemies[k].type = "NORMAL" /\ g.enemies[k].hp > 0
    /\ \E n \in 1..Len(obs.deaths) : obs.deaths[n].id = 1

\* the hp the tick being taken removes from the players p..np, in a tick
\* that gives no hp back
RECURSIVE HpRemoved(_)
HpRemoved(p) ==
    IF p > Len(g.players) THEN 0
    ELSE (g.players[p].hp - g'.players[p].hp) + HpRemoved(p + 1)

\* the tick being taken gives hp back to nobody: no medkit is picked up, no
\* wave ends, no player is revived and no player's hp rises
NoHpBack ==
    /\ "MEDKIT" \notin obs'.picked
    /\ g'.wave = g.wave
    /\ \A p \in 1..Len(g.players) :
           /\ g'.players[p].hp <= g.players[p].hp
           /\ g.players[p].dead => g'.players[p].dead

\* C36 as a step: in a tick that gives no hp back the damage-taken statistic
\* rises by exactly the hp the tick removes from the players.
C36_Step ==
    (TickStep /\ NoHpBack) => g'.damageTaken - g.damageTaken = HpRemoved(1)

\* C36: on every tick the damage-taken statistic equals the total hp
\* actually removed from players since the run began, under every difficulty
\* setting and for every damage source.
C36_DamageTakenIsHpRemoved == [][C36_Step]_vars

\* C37 as a step: a tick that runs to its end with a kill leaves the
\* max-combo statistic at the larger of its old value and the combo count
\* after the last kill, the largest count of the tick; a tick without a kill
\* leaves it alone; after the tick the statistic is at least the count.
C37_Step ==
    FullTick =>
        /\ g'.maxCombo = IF KillsNow > 0 THEN Max(g.maxCombo, g'.combo.count)
                         ELSE g.maxCombo
        /\ g'.maxCombo >= g'.combo.count

\* C37: on every tick the max-combo statistic equals the largest value the
\* combo count has taken so far in the run.
C37_MaxComboIsLargest == [][C37_Step]_vars

\* C38: the shots-hit statistic never exceeds the shots-fired statistic, so
\* the accuracy percentage computed from them at game-over is never above
\* 100.
C38_HitsWithinShots == g.shotsHit <= g.shotsFired

============================================================================
